---- MODULE Spec2Model ----
(***************************************************************************)
(* Output descriptors of rust-miniscript (src/descriptor/mod.rs): the      *)
(* envelope functions script_pubkey, unsigned_script_sig, witness_script,  *)
(* address, max_satisfaction_weight, satisfy on a TxIn, and from_str; and  *)
(* the script AST of src/descript/mod.rs: parse, serialize and satisfy.    *)
(* Scripts, witness elements, keys and hashes are byte sequences           *)
(* (sequences of 0..255); strings are sequences of their bytes.            *)
(***************************************************************************)
EXTENDS Integers, Sequences, FiniteSets, TLC

VARIABLES desc, satisfier, str, txin, last, descript, program

vars == <<desc, satisfier, str, txin, last, descript, program>>

(***************************************************************************)
(* Bounds of the model.                                                    *)
(***************************************************************************)
\* number of distinct public keys
NumKeys == 2
\* number of distinct timelock values used by older()/after()
NumLocks == 2
\* number of distinct characters tried inside the strings given to from_str
NumProbes == 6
\* number of distinct byte strings put into the scripts given to Descript::parse
NumScriptProbes == 8
\* number of elements of the witness stacks given to witness_to_scriptsig
MaxStackLen == 2

(***************************************************************************)
(* Script opcodes (bitcoin::blockdata::opcodes).                           *)
(***************************************************************************)
OP_PUSHBYTES_0 == 0
OP_PUSHDATA1 == 76
OP_PUSHDATA2 == 77
OP_PUSHDATA4 == 78
OP_PUSHNUM_NEG1 == 79
OP_PUSHNUM_1 == 81
OP_DUP == 118
OP_EQUAL == 135
OP_EQUALVERIFY == 136
OP_HASH160 == 169
OP_CHECKSIG == 172
OP_CHECKMULTISIG == 174
OP_CLTV == 177
OP_CSV == 178

(***************************************************************************)
(* Byte-sequence helpers.                                                  *)
(***************************************************************************)
Rep(n, b) == [i \in 1..n |-> b]

RECURSIVE Concat(_)
Concat(ss) == IF ss = <<>> THEN <<>> ELSE Head(ss) \o Concat(Tail(ss))

RECURSIVE WSum(_, _, _)
\* position-weighted checksum of the bytes b[lo..hi], the seed of the hash models
WSum(b, lo, hi) ==
    IF lo > hi THEN 0
    ELSE IF lo = hi THEN ((lo + 2) * (b[lo] + 1)) % 65521
    ELSE LET mid == (lo + hi) \div 2
         IN  (WSum(b, lo, mid) + WSum(b, mid + 1, hi)) % 65521

\* little-endian bytes of a non-negative magnitude (empty for 0)
RECURSIVE LeBytes(_)
LeBytes(n) == IF n = 0 THEN <<>> ELSE <<n % 256>> \o LeBytes(n \div 256)

RECURSIVE LeValue(_)
LeValue(b) == IF b = <<>> THEN 0 ELSE Head(b) + 256 * LeValue(Tail(b))

(***************************************************************************)
(* Hash primitives (bitcoin::hashes): a 20-byte and a 32-byte digest.      *)
(* The digests are deterministic functions of the whole input; the two     *)
(* functions differ, and inputs of the model have distinct digests.        *)
(***************************************************************************)
hash160(b) ==
    LET s == WSum(b, 1, Len(b))
    IN  [i \in 1..20 |-> IF i = 1 THEN s % 256
                         ELSE IF i = 2 THEN (s \div 256) % 256
                         ELSE IF i = 3 THEN Len(b) % 256
                         ELSE (s + 31 * i) % 256]

sha256(b) ==
    LET s == WSum(b, 1, Len(b))
    IN  [i \in 1..32 |-> IF i = 1 THEN (s \div 256) % 256
                         ELSE IF i = 2 THEN s % 256
                         ELSE IF i = 3 THEN (Len(b) + 1) % 256
                         ELSE (s + 17 * i + 5) % 256]

(***************************************************************************)
(* script::Builder and script integers (bitcoin::blockdata::script).       *)
(***************************************************************************)
\* Builder::push_slice: the shortest length prefix the length allows, then the data
push_slice(data) ==
    LET n == Len(data)
    IN  IF n < 76 THEN <<n>> \o data
        ELSE IF n < 256 THEN <<OP_PUSHDATA1, n>> \o data
        ELSE IF n < 65536 THEN <<OP_PUSHDATA2, n % 256, n \div 256>> \o data
        ELSE <<OP_PUSHDATA4, n % 256, (n \div 256) % 256,
               (n \div 65536) % 256, n \div 16777216>> \o data

push_opcode(op) == <<op>>

\* script::build_scriptint: minimal little-endian sign-magnitude encoding
build_scriptint(n) ==
    LET mag == IF n < 0 THEN -n ELSE n
        b == LeBytes(mag)
        l == Len(b)
    IN  IF n = 0 THEN <<>>
        ELSE IF b[l] >= 128 THEN b \o <<IF n < 0 THEN 128 ELSE 0>>
        ELSE IF n < 0 THEN [b EXCEPT ![l] = b[l] + 128]
        ELSE b

\* read_scriptint that reads any encoding of at most 4 bytes, minimal or not
read_scriptint_AnyEncoding(v) ==
    LET l == Len(v)
    IN  IF l = 0 THEN [ok |-> TRUE, n |-> 0]
        ELSE IF l > 4 THEN [ok |-> FALSE, n |-> 0]
        ELSE LET mag == LeValue([v EXCEPT ![l] = v[l] % 128])
             IN  [ok |-> TRUE, n |-> IF v[l] >= 128 THEN -mag ELSE mag]

\* script::read_scriptint: [ok, n]; fails on more than 4 bytes or a non-minimal encoding
read_scriptint(v) ==
    LET l == Len(v)
    IN  IF l = 0 THEN [ok |-> TRUE, n |-> 0]
        ELSE IF l > 4 THEN [ok |-> FALSE, n |-> 0]
        ELSE IF v[l] % 128 = 0 /\ (l <= 1 \/ v[l - 1] < 128) THEN [ok |-> FALSE, n |-> 0]
        ELSE LET mag == LeValue([v EXCEPT ![l] = v[l] % 128])
             IN  [ok |-> TRUE, n |-> IF v[l] >= 128 THEN -mag ELSE mag]

\* Builder::push_int: OP_0, OP_1NEGATE, OP_1..OP_16, else a push of the script integer
push_int(n) ==
    IF n = 0 THEN push_opcode(OP_PUSHBYTES_0)
    ELSE IF n = -1 \/ (n >= 1 /\ n <= 16) THEN push_opcode(n + OP_PUSHNUM_1 - 1)
    ELSE push_slice(build_scriptint(n))

\* bitcoin::VarInt::len: 1, 3, 5 or 9 bytes (0..0xFC, ..0xFFFF, ..0xFFFFFFFF, above)
varint_len(n) ==
    IF n <= 252 THEN 1 ELSE IF n <= 65535 THEN 3 ELSE IF n \div 65536 <= 65535 THEN 5 ELSE 9

(***************************************************************************)
(* Keys, signatures and the Satisfier.                                     *)
(***************************************************************************)
Keys == 1..NumKeys

\* bitcoin::PublicKey.compressed: key 2 is an uncompressed key, the others are compressed
compressed(k) == k # 2

\* pk.to_public_key().to_bytes(): 33 bytes compressed, 65 bytes uncompressed;
\* key 1 is the key 02 00..00 02 of the tests
to_bytes(k) ==
    IF compressed(k) THEN <<2>> \o Rep(31, 0) \o <<k + 1>>
    ELSE <<4>> \o Rep(31, 0) \o <<k + 1>> \o Rep(32, 7)

\* Builder::push_key
push_key(k) == push_slice(to_bytes(k))

\* ToPublicKey::serialized_len: the size of the key in a script, length byte included
serialized_len(k) == IF compressed(k) THEN 34 ELSE 66

\* DER lengths a secp256k1 signature serializes to (72 is the longest encoding)
DerLens == {70, 71, 72}

\* SigHashType::All and SigHashType::SinglePlusAnyoneCanPay
SigHashTypes == {1, 131}

Sigs == [derlen : DerLens, hashty : SigHashTypes]

\* secp256k1::Signature::serialize_der
serialize_der(sig) ==
    [i \in 1..sig.derlen |-> IF i = 1 THEN 48
                             ELSE IF i = 2 THEN sig.derlen - 2
                             ELSE (7 * i + sig.hashty) % 256]

\* the DER signature with the sighash byte appended (sig.1.as_u32() as u8)
sig_vec(sig) == serialize_der(sig) \o <<sig.hashty % 256>>

\* timelock values of the older()/after() fragments
LockValue(i) == CASE i = 1 -> 1000 [] i = 2 -> 16 [] i = 3 -> 128 [] OTHER -> 65536 + i

Locks == {LockValue(i) : i \in 1..NumLocks}

\* A Satisfier: the keys it has a signature for, the signature it returns,
\* and the age/height its timelock checks compare against.
Satisfiers == [has : SUBSET Keys, sig : {g \in Sigs : g.hashty = 1 \/ g.derlen = 71},
               age : {0, 16, 1000}]

NoSig == [derlen |-> 0, hashty |-> 0]

\* Satisfier::lookup_sig
lookup_sig(sat, k) == IF k \in sat.has THEN sat.sig ELSE NoSig

\* Satisfier::check_older / check_after
check_older(sat, n) == n <= sat.age

(***************************************************************************)
(* Miniscript fragments used inside the envelopes.                         *)
(***************************************************************************)
NoMs == [node |-> "none", key |-> 0, n |-> 0, k |-> 0, keys |-> <<>>]

pk_k(key) == [NoMs EXCEPT !.node = "c:pk_k", !.key = key]
older(n) == [NoMs EXCEPT !.node = "older", !.n = n]
after(n) == [NoMs EXCEPT !.node = "after", !.n = n]
multi(k, keys) == [NoMs EXCEPT !.node = "multi", !.k = k, !.keys = keys]

AllKeys == [i \in 1..NumKeys |-> i]

Miniscripts ==
    {pk_k(key) : key \in Keys} \cup {older(n) : n \in Locks} \cup {after(n) : n \in Locks}
    \cup {multi(k, AllKeys) : k \in {1, NumKeys}}

\* Miniscript::encode
encode(ms) ==
    CASE ms.node = "c:pk_k" -> push_key(ms.key) \o push_opcode(OP_CHECKSIG)
      [] ms.node = "older" -> push_int(ms.n) \o push_opcode(OP_CSV)
      [] ms.node = "after" -> push_int(ms.n) \o push_opcode(OP_CLTV)
      [] ms.node = "multi" ->
            push_int(ms.k) \o Concat([i \in 1..Len(ms.keys) |-> push_key(ms.keys[i])])
            \o push_int(Len(ms.keys)) \o push_opcode(OP_CHECKMULTISIG)

RECURSIVE multi_sigs(_, _, _, _)
\* the signatures of the first `need` keys of keys[i..] the satisfier can sign for
multi_sigs(sat, keys, i, need) ==
    IF need = 0 \/ i > Len(keys) THEN <<>>
    ELSE IF lookup_sig(sat, keys[i]) # NoSig
         THEN <<sig_vec(lookup_sig(sat, keys[i]))>> \o multi_sigs(sat, keys, i + 1, need - 1)
         ELSE multi_sigs(sat, keys, i + 1, need)

\* Miniscript::satisfy: [some, stack], some = FALSE for None
ms_satisfy(ms, sat) ==
    CASE ms.node = "c:pk_k" ->
            IF lookup_sig(sat, ms.key) # NoSig
            THEN [some |-> TRUE, stack |-> <<sig_vec(lookup_sig(sat, ms.key))>>]
            ELSE [some |-> FALSE, stack |-> <<>>]
      [] ms.node \in {"older", "after"} ->
            [some |-> check_older(sat, ms.n), stack |-> <<>>]
      [] ms.node = "multi" ->
            LET sigs == multi_sigs(sat, ms.keys, 1, ms.k)
            IN  IF Len(sigs) = ms.k THEN [some |-> TRUE, stack |-> <<(<<>>)>> \o sigs]
                ELSE [some |-> FALSE, stack |-> <<>>]

\* Miniscript::script_size
script_size(ms) == Len(encode(ms))

\* Miniscript::max_satisfaction_witness_elements
max_satisfaction_witness_elements(ms) ==
    CASE ms.node = "c:pk_k" -> 1
      [] ms.node \in {"older", "after"} -> 0
      [] ms.node = "multi" -> 1 + ms.k

\* Miniscript::max_satisfaction_size(one_cost): signatures count 73 bytes
max_satisfaction_size(ms, one_cost) ==
    CASE ms.node = "c:pk_k" -> 73
      [] ms.node \in {"older", "after"} -> 0
      [] ms.node = "multi" -> 1 + 73 * ms.k

(***************************************************************************)
(* Descriptors.                                                            *)
(***************************************************************************)
KeyTags == {"Pk", "Pkh", "Wpkh", "ShWpkh"}
MsTags == {"Bare", "Sh", "Wsh", "ShWsh"}

Descriptor(tag, pk, ms) == [tag |-> tag, pk |-> pk, ms |-> ms]

Descriptors ==
    {Descriptor(t, k, NoMs) : t \in KeyTags, k \in Keys}
    \cup {Descriptor(t, 0, ms) : t \in MsTags, ms \in Miniscripts}

NoDescriptor == Descriptor("none", 0, NoMs)

\* Script::to_p2sh
to_p2sh(script) ==
    push_opcode(OP_HASH160) \o push_slice(hash160(script)) \o push_opcode(OP_EQUAL)

\* Script::to_v0_p2wsh
to_v0_p2wsh(script) == push_int(0) \o push_slice(sha256(script))

\* Address::p2pkh(pk, network).script_pubkey()
p2pkh(pk) ==
    push_opcode(OP_DUP) \o push_opcode(OP_HASH160) \o push_slice(hash160(to_bytes(pk)))
    \o push_opcode(OP_EQUALVERIFY) \o push_opcode(OP_CHECKSIG)

\* Address::p2wpkh(pk, network).script_pubkey()
p2wpkh(pk) == push_int(0) \o push_slice(hash160(to_bytes(pk)))

\* Address::p2shwpkh(pk, network).script_pubkey()
p2shwpkh(pk) == to_p2sh(p2wpkh(pk))

(***************************************************************************)
(* bitcoin::Address: a network and a payload (a key hash, a script hash or *)
(* a version 0 witness program).                                           *)
(***************************************************************************)
Networks == {"Bitcoin", "Testnet", "Regtest"}

Address(network, kind, hash) == [network |-> network, kind |-> kind, hash |-> hash]

\* Option<Address>::None
NoAddress == Address("none", "none", <<>>)

address_p2pkh(pk, network) == Address(network, "PubkeyHash", hash160(to_bytes(pk)))
address_p2sh(script, network) == Address(network, "ScriptHash", hash160(script))
address_p2wpkh(pk, network) == Address(network, "WitnessProgram", hash160(to_bytes(pk)))
address_p2wsh(script, network) == Address(network, "WitnessProgram", sha256(script))

address_p2shwpkh(pk, network) ==
    Address(network, "ScriptHash",
            hash160(push_int(0) \o push_slice(hash160(to_bytes(pk)))))

address_p2shwsh(script, network) ==
    Address(network, "ScriptHash", hash160(push_int(0) \o push_slice(sha256(script))))

\* Address::script_pubkey: the script of the payload; the network plays no part
address_script_pubkey(a) ==
    CASE a.kind = "PubkeyHash" ->
            <<OP_DUP, OP_HASH160>> \o push_slice(a.hash) \o <<OP_EQUALVERIFY, OP_CHECKSIG>>
      [] a.kind = "ScriptHash" -> <<OP_HASH160>> \o push_slice(a.hash) \o <<OP_EQUAL>>
      [] a.kind = "WitnessProgram" -> push_int(0) \o push_slice(a.hash)

\* address with the ShWsh arm building the native segwit address
address_ShWshAsWsh(d, network) ==
    CASE d.tag \in {"Bare", "Pk"} -> NoAddress
      [] d.tag = "Pkh" -> address_p2pkh(d.pk, network)
      [] d.tag = "Wpkh" -> address_p2wpkh(d.pk, network)
      [] d.tag = "ShWpkh" -> address_p2shwpkh(d.pk, network)
      [] d.tag = "Sh" -> address_p2sh(encode(d.ms), network)
      [] d.tag = "Wsh" -> address_p2wsh(encode(d.ms), network)
      [] d.tag = "ShWsh" -> address_p2wsh(encode(d.ms), network)

\* Descriptor::address
address(d, network) ==
    CASE d.tag = "Bare" -> NoAddress
      [] d.tag = "Pk" -> NoAddress
      [] d.tag = "Pkh" -> address_p2pkh(d.pk, network)
      [] d.tag = "Wpkh" -> address_p2wpkh(d.pk, network)
      [] d.tag = "ShWpkh" -> address_p2shwpkh(d.pk, network)
      [] d.tag = "Sh" -> address_p2sh(encode(d.ms), network)
      [] d.tag = "Wsh" -> address_p2wsh(encode(d.ms), network)
      [] d.tag = "ShWsh" -> address_p2shwsh(encode(d.ms), network)

\* script_pubkey with the ShWsh arm hashing the witness script directly,
\* without the P2WSH layer
script_pubkey_ShWshUnwrapped(d) ==
    CASE d.tag = "Bare" -> encode(d.ms)
      [] d.tag = "Pk" -> push_key(d.pk) \o push_opcode(OP_CHECKSIG)
      [] d.tag = "Pkh" -> p2pkh(d.pk)
      [] d.tag = "Wpkh" -> p2wpkh(d.pk)
      [] d.tag = "ShWpkh" -> p2shwpkh(d.pk)
      [] d.tag = "Sh" -> to_p2sh(encode(d.ms))
      [] d.tag = "Wsh" -> to_v0_p2wsh(encode(d.ms))
      [] d.tag = "ShWsh" -> to_p2sh(encode(d.ms))

\* Descriptor::script_pubkey
script_pubkey(d) ==
    CASE d.tag = "Bare" -> encode(d.ms)
      [] d.tag = "Pk" -> push_key(d.pk) \o push_opcode(OP_CHECKSIG)
      [] d.tag = "Pkh" -> p2pkh(d.pk)
      [] d.tag = "Wpkh" -> p2wpkh(d.pk)
      [] d.tag = "ShWpkh" -> p2shwpkh(d.pk)
      [] d.tag = "Sh" -> to_p2sh(encode(d.ms))
      [] d.tag = "Wsh" -> to_v0_p2wsh(encode(d.ms))
      [] d.tag = "ShWsh" -> to_p2sh(to_v0_p2wsh(encode(d.ms)))

\* unsigned_script_sig with the ShWsh arm pushing the witness script itself
unsigned_script_sig_PushesWitnessScript(d) ==
    CASE d.tag \in {"Bare", "Pk", "Pkh", "Sh"} -> <<>>
      [] d.tag \in {"Wsh", "Wpkh"} -> <<>>
      [] d.tag = "ShWpkh" -> push_slice(p2wpkh(d.pk))
      [] d.tag = "ShWsh" -> push_slice(encode(d.ms))

\* Descriptor::unsigned_script_sig
unsigned_script_sig(d) ==
    CASE d.tag \in {"Bare", "Pk", "Pkh", "Sh"} -> <<>>
      [] d.tag \in {"Wsh", "Wpkh"} -> <<>>
      [] d.tag = "ShWpkh" -> push_slice(p2wpkh(d.pk))
      [] d.tag = "ShWsh" -> push_slice(to_v0_p2wsh(encode(d.ms)))

\* witness_script with Wsh grouped with the envelopes that return script_pubkey
witness_script_WshIsScriptPubkey(d) ==
    CASE d.tag \in {"Bare", "Pk", "Pkh", "Wpkh", "Wsh"} -> script_pubkey(d)
      [] d.tag = "ShWpkh" -> p2wpkh(d.pk)
      [] d.tag \in {"Sh", "ShWsh"} -> encode(d.ms)

\* witness_script with Sh grouped with the envelopes that return script_pubkey
witness_script_ShIsScriptPubkey(d) ==
    CASE d.tag \in {"Bare", "Pk", "Pkh", "Wpkh", "Sh"} -> script_pubkey(d)
      [] d.tag = "ShWpkh" -> p2wpkh(d.pk)
      [] d.tag \in {"Wsh", "ShWsh"} -> encode(d.ms)

\* witness_script with Wpkh returning the P2PKH script of its key
witness_script_WpkhIsP2PKH(d) ==
    CASE d.tag \in {"Bare", "Pk", "Pkh"} -> script_pubkey(d)
      [] d.tag = "Wpkh" -> p2pkh(d.pk)
      [] d.tag = "ShWpkh" -> p2wpkh(d.pk)
      [] d.tag \in {"Sh", "Wsh", "ShWsh"} -> encode(d.ms)

\* Descriptor::witness_script
witness_script(d) ==
    CASE d.tag \in {"Bare", "Pk", "Pkh", "Wpkh"} -> script_pubkey(d)
      [] d.tag = "ShWpkh" -> p2wpkh(d.pk)
      [] d.tag \in {"Sh", "Wsh", "ShWsh"} -> encode(d.ms)

(***************************************************************************)
(* Descriptor::satisfy on a TxIn.                                          *)
(***************************************************************************)
Ok == [tag |-> "Ok", pk |-> <<>>]
MissingSig(pk) == [tag |-> "MissingSig", pk |-> to_bytes(pk)]
CouldNotSatisfy == [tag |-> "CouldNotSatisfy", pk |-> <<>>]

\* witness_to_scriptsig: an integer push for an element that reads as a script
\* integer, a data push for every other element
witness_to_scriptsig(witness) ==
    Concat([i \in 1..Len(witness) |->
               IF read_scriptint(witness[i]).ok
               THEN push_int(read_scriptint(witness[i]).n)
               ELSE push_slice(witness[i])])

\* result of satisfy: the TxIn as the call leaves it, and the returned value
Result(tx, ret) == [txin |-> tx, ret |-> ret]

\* Descriptor::satisfy, arm Bare
satisfy_bare(d, tx, sat) ==
    LET wit == ms_satisfy(d.ms, sat)
    IN  IF ~wit.some THEN Result(tx, CouldNotSatisfy)
        ELSE Result([tx EXCEPT !.script_sig = witness_to_scriptsig(wit.stack),
                               !.witness = <<>>], Ok)

\* the Pk arm reporting a missing signature as CouldNotSatisfy
satisfy_pk_CouldNotSatisfy(d, tx, sat) ==
    LET sig == lookup_sig(sat, d.pk)
    IN  IF sig = NoSig THEN Result(tx, CouldNotSatisfy)
        ELSE Result([tx EXCEPT !.script_sig = push_slice(sig_vec(sig)),
                               !.witness = <<>>], Ok)

\* Descriptor::satisfy, arm Pk
satisfy_pk(d, tx, sat) ==
    LET sig == lookup_sig(sat, d.pk)
    IN  IF sig = NoSig THEN Result(tx, MissingSig(d.pk))
        ELSE Result([tx EXCEPT !.script_sig = push_slice(sig_vec(sig)),
                               !.witness = <<>>], Ok)

\* Descriptor::satisfy, arm Pkh
satisfy_pkh(d, tx, sat) ==
    LET sig == lookup_sig(sat, d.pk)
    IN  IF sig = NoSig THEN Result(tx, MissingSig(d.pk))
        ELSE Result([tx EXCEPT !.script_sig = push_slice(sig_vec(sig)) \o push_key(d.pk),
                               !.witness = <<>>], Ok)

\* the Wpkh arm writing the witness only, script_sig left as it was given
satisfy_wpkh_KeepsScriptSig(d, tx, sat) ==
    LET sig == lookup_sig(sat, d.pk)
    IN  IF sig = NoSig THEN Result(tx, MissingSig(d.pk))
        ELSE Result([tx EXCEPT !.witness = <<sig_vec(sig), to_bytes(d.pk)>>], Ok)

\* Descriptor::satisfy, arm Wpkh
satisfy_wpkh(d, tx, sat) ==
    LET sig == lookup_sig(sat, d.pk)
    IN  IF sig = NoSig THEN Result(tx, MissingSig(d.pk))
        ELSE Result([tx EXCEPT !.script_sig = <<>>,
                               !.witness = <<sig_vec(sig), to_bytes(d.pk)>>], Ok)

\* the ShWpkh arm leaving script_sig empty, as the Wpkh arm does
satisfy_shwpkh_EmptyScriptSig(d, tx, sat) ==
    LET sig == lookup_sig(sat, d.pk)
    IN  IF sig = NoSig THEN Result(tx, MissingSig(d.pk))
        ELSE Result([tx EXCEPT !.script_sig = <<>>,
                               !.witness = <<sig_vec(sig), to_bytes(d.pk)>>], Ok)

\* Descriptor::satisfy, arm ShWpkh
satisfy_shwpkh(d, tx, sat) ==
    LET sig == lookup_sig(sat, d.pk)
        redeem_script == p2wpkh(d.pk)
    IN  IF sig = NoSig THEN Result(tx, MissingSig(d.pk))
        ELSE Result([tx EXCEPT !.script_sig = push_slice(redeem_script),
                               !.witness = <<sig_vec(sig), to_bytes(d.pk)>>], Ok)

\* the Sh arm without the push of the redeem script
satisfy_sh_NoRedeemScript(d, tx, sat) ==
    LET wit == ms_satisfy(d.ms, sat)
    IN  IF ~wit.some THEN Result(tx, CouldNotSatisfy)
        ELSE Result([tx EXCEPT !.script_sig = witness_to_scriptsig(wit.stack),
                               !.witness = <<>>], Ok)

\* Descriptor::satisfy, arm Sh
satisfy_sh(d, tx, sat) ==
    LET wit == ms_satisfy(d.ms, sat)
        witness == Append(wit.stack, encode(d.ms))
    IN  IF ~wit.some THEN Result(tx, CouldNotSatisfy)
        ELSE Result([tx EXCEPT !.script_sig = witness_to_scriptsig(witness),
                               !.witness = <<>>], Ok)

\* the Wsh arm without the witness script as last witness element
satisfy_wsh_NoWitnessScript(d, tx, sat) ==
    LET wit == ms_satisfy(d.ms, sat)
    IN  IF ~wit.some THEN Result(tx, CouldNotSatisfy)
        ELSE Result([tx EXCEPT !.script_sig = <<>>, !.witness = wit.stack], Ok)

\* Descriptor::satisfy, arm Wsh
satisfy_wsh(d, tx, sat) ==
    LET wit == ms_satisfy(d.ms, sat)
        witness == Append(wit.stack, encode(d.ms))
    IN  IF ~wit.some THEN Result(tx, CouldNotSatisfy)
        ELSE Result([tx EXCEPT !.script_sig = <<>>, !.witness = witness], Ok)

\* Descriptor::satisfy, arm ShWsh: script_sig is assigned before the miniscript
\* is satisfied, so it is written on the error path too
satisfy_shwsh(d, tx, sat) ==
    LET ws == encode(d.ms)
        tx1 == [tx EXCEPT !.script_sig = push_slice(to_v0_p2wsh(ws))]
        wit == ms_satisfy(d.ms, sat)
    IN  IF ~wit.some THEN Result(tx1, CouldNotSatisfy)
        ELSE Result([tx1 EXCEPT !.witness = Append(wit.stack, ws)], Ok)

\* Descriptor::satisfy
satisfy(d, tx, sat) ==
    CASE d.tag = "Bare" -> satisfy_bare(d, tx, sat)
      [] d.tag = "Pk" -> satisfy_pk(d, tx, sat)
      [] d.tag = "Pkh" -> satisfy_pkh(d, tx, sat)
      [] d.tag = "Wpkh" -> satisfy_wpkh(d, tx, sat)
      [] d.tag = "ShWpkh" -> satisfy_shwpkh(d, tx, sat)
      [] d.tag = "Sh" -> satisfy_sh(d, tx, sat)
      [] d.tag = "Wsh" -> satisfy_wsh(d, tx, sat)
      [] d.tag = "ShWsh" -> satisfy_shwsh(d, tx, sat)

(***************************************************************************)
(* translate_pk: the keys of a descriptor mapped by the caller's function. *)
(***************************************************************************)
\* the errors a translation function returns
TranslateErrors == {-1, -2}

\* The functions given as translatefpk: each key gives Ok(key) or Err(e).
\* translatefpkh is given too; no fragment of the model holds a key hash.
Translations == [Keys -> Keys \cup TranslateErrors]

\* Ok(..) and Err(e) of a translation
Translated(x) == [ok |-> TRUE, val |-> x, err |-> 0]
NotTranslated(e) == [ok |-> FALSE, val |-> 0, err |-> e]

\* translatefpk(pk)
translatefpk(f, pk) == IF f[pk] \in TranslateErrors THEN NotTranslated(f[pk]) ELSE Translated(f[pk])

RECURSIVE translate_keys(_, _, _)
\* the keys keys[i..] translated in their order, up to the first error
translate_keys(f, keys, i) ==
    IF i > Len(keys) THEN Translated(<<>>)
    ELSE LET q == translatefpk(f, keys[i])
             more == translate_keys(f, keys, i + 1)
         IN  IF ~q.ok THEN q
             ELSE IF ~more.ok THEN more
             ELSE Translated(<<q.val>> \o more.val)

\* Miniscript::translate_pk: the same fragment over the translated keys
ms_translate_pk(ms, f) ==
    CASE ms.node = "c:pk_k" ->
            LET q == translatefpk(f, ms.key)
            IN  IF q.ok THEN Translated(pk_k(q.val)) ELSE q
      [] ms.node = "multi" ->
            LET qs == translate_keys(f, ms.keys, 1)
            IN  IF qs.ok THEN Translated(multi(ms.k, qs.val)) ELSE qs
      [] OTHER -> Translated(ms)

\* the results of translate_pk
TranslateOk(d) == [tag |-> "Ok", d |-> d, err |-> 0]
TranslateErr(e) == [tag |-> "Err", d |-> NoDescriptor, err |-> e]

\* translatefpk(pk).map(Descriptor::<tag>)
map_key(tag, q) == IF q.ok THEN TranslateOk(Descriptor(tag, q.val, NoMs)) ELSE TranslateErr(q.err)

\* Ok(Descriptor::<tag>(ms.translate_pk(..)?))
map_ms(tag, q) == IF q.ok THEN TranslateOk(Descriptor(tag, 0, q.val)) ELSE TranslateErr(q.err)

\* translate_pk with the ShWpkh arm building a Wpkh
translate_pk_ShWpkhAsWpkh(d, f) ==
    CASE d.tag = "Bare" -> map_ms("Bare", ms_translate_pk(d.ms, f))
      [] d.tag = "Pk" -> map_key("Pk", translatefpk(f, d.pk))
      [] d.tag = "Pkh" -> map_key("Pkh", translatefpk(f, d.pk))
      [] d.tag = "Wpkh" -> map_key("Wpkh", translatefpk(f, d.pk))
      [] d.tag = "ShWpkh" -> map_key("Wpkh", translatefpk(f, d.pk))
      [] d.tag = "Sh" -> map_ms("Sh", ms_translate_pk(d.ms, f))
      [] d.tag = "Wsh" -> map_ms("Wsh", ms_translate_pk(d.ms, f))
      [] d.tag = "ShWsh" -> map_ms("ShWsh", ms_translate_pk(d.ms, f))

\* Descriptor::translate_pk
translate_pk(d, f) ==
    CASE d.tag = "Bare" -> map_ms("Bare", ms_translate_pk(d.ms, f))
      [] d.tag = "Pk" -> map_key("Pk", translatefpk(f, d.pk))
      [] d.tag = "Pkh" -> map_key("Pkh", translatefpk(f, d.pk))
      [] d.tag = "Wpkh" -> map_key("Wpkh", translatefpk(f, d.pk))
      [] d.tag = "ShWpkh" -> map_key("ShWpkh", translatefpk(f, d.pk))
      [] d.tag = "Sh" -> map_ms("Sh", ms_translate_pk(d.ms, f))
      [] d.tag = "Wsh" -> map_ms("Wsh", ms_translate_pk(d.ms, f))
      [] d.tag = "ShWsh" -> map_ms("ShWsh", ms_translate_pk(d.ms, f))

\* Descriptor::max_satisfaction_weight
max_satisfaction_weight(d) ==
    CASE d.tag = "Bare" ->
            LET scriptsig_len == max_satisfaction_size(d.ms, 1)
            IN  4 * (varint_len(scriptsig_len) + scriptsig_len)
      [] d.tag = "Pk" -> 4 * (1 + 73)
      [] d.tag = "Pkh" -> 4 * (1 + 73 + serialized_len(d.pk))
      [] d.tag = "Wpkh" -> 4 + 1 + 73 + serialized_len(d.pk)
      [] d.tag = "ShWpkh" -> 4 * 24 + 1 + 73 + serialized_len(d.pk)
      [] d.tag = "Sh" ->
            LET ss == script_size(d.ms)
                push_size == IF ss < 76 THEN 1
                             ELSE IF ss < 256 THEN 2
                             ELSE IF ss < 65536 THEN 3
                             ELSE 5
                scriptsig_len == push_size + ss + max_satisfaction_size(d.ms, 1)
            IN  4 * (varint_len(scriptsig_len) + scriptsig_len)
      [] d.tag = "Wsh" ->
            4 + varint_len(script_size(d.ms)) + script_size(d.ms)
            + varint_len(max_satisfaction_witness_elements(d.ms))
            + max_satisfaction_size(d.ms, 2)
      [] d.tag = "ShWsh" ->
            4 * 36 + varint_len(script_size(d.ms)) + script_size(d.ms)
            + varint_len(max_satisfaction_witness_elements(d.ms))
            + max_satisfaction_size(d.ms, 2)

(***************************************************************************)
(* Text: strings are byte sequences.  Names of the descriptor language.    *)
(***************************************************************************)
LPAREN == 40
RPAREN == 41
COMMA == 44

S_pk == <<112, 107>>
S_pkh == <<112, 107, 104>>
S_wpkh == <<119, 112, 107, 104>>
S_sh == <<115, 104>>
S_wsh == <<119, 115, 104>>
S_c_pk_k == <<99, 58, 112, 107, 95, 107>>
S_older == <<111, 108, 100, 101, 114>>
S_after == <<97, 102, 116, 101, 114>>
S_multi == <<109, 117, 108, 116, 105>>

\* name(arg)
Fn(name, arg) == name \o <<LPAREN>> \o arg \o <<RPAREN>>

\* Pk::to_string: a key is written as one letter, key 1 as "A"
key_to_string(k) == <<64 + k>>

\* Pk::from_str: [ok, k]
key_from_str(name) ==
    IF Len(name) = 1 /\ name[1] - 64 \in Keys THEN [ok |-> TRUE, k |-> name[1] - 64]
    ELSE [ok |-> FALSE, k |-> 0]

RECURSIVE num_to_string(_)
\* decimal digits of a positive number
num_to_string(n) ==
    IF n < 10 THEN <<48 + n>> ELSE num_to_string(n \div 10) \o <<48 + (n % 10)>>

RECURSIVE DecValue(_, _)
DecValue(digits, acc) ==
    IF digits = <<>> THEN acc ELSE DecValue(Tail(digits), 10 * acc + Head(digits) - 48)

\* expression::parse_num: [ok, n]; decimal digits only, at most 9 of them here
parse_num(name) ==
    IF Len(name) \in 1..9 /\ \A i \in 1..Len(name) : name[i] \in 48..57
    THEN [ok |-> TRUE, n |-> DecValue(name, 0)]
    ELSE [ok |-> FALSE, n |-> 0]

(***************************************************************************)
(* expression::Tree: the name/args tree of a string.                       *)
(***************************************************************************)
Tree(name, args) == [name |-> name, args |-> args]

NoTree == Tree(<<>>, <<>>)

\* position of the first '(' ',' or ')' of sl, 0 if there is none
FirstDelim(sl) ==
    LET idx == {i \in 1..Len(sl) : sl[i] \in {LPAREN, RPAREN, COMMA}}
    IN  IF idx = {} THEN 0 ELSE CHOOSE i \in idx : \A j \in idx : i <= j

Parsed(tree, args, rest) ==
    [ok |-> TRUE, tree |-> tree, args |-> args, rest |-> rest, err |-> "", byte |-> 0]

ParseError(err, byte) ==
    [ok |-> FALSE, tree |-> NoTree, args |-> <<>>, rest |-> <<>>, err |-> err, byte |-> byte]

RECURSIVE from_slice(_), parse_args(_, _)
\* Tree::from_slice: a terminal up to the next ',' or ')' or the end, or
\* name '(' args ')'; returns the tree and the unread rest
from_slice(sl) ==
    LET n == FirstDelim(sl)
    IN  IF n = 0 THEN Parsed(Tree(sl, <<>>), <<>>, <<>>)
        ELSE IF sl[n] # LPAREN
             THEN Parsed(Tree(SubSeq(sl, 1, n - 1), <<>>), <<>>, SubSeq(sl, n, Len(sl)))
        ELSE LET r == parse_args(SubSeq(sl, n + 1, Len(sl)), <<>>)
             IN  IF r.ok THEN Parsed(Tree(SubSeq(sl, 1, n - 1), r.args), <<>>, r.rest)
                 ELSE r

\* the argument loop of Tree::from_slice: arguments separated by ',' up to ')'
parse_args(sl, acc) ==
    LET a == from_slice(sl)
    IN  IF ~a.ok THEN a
        ELSE IF a.rest = <<>> THEN ParseError("ExpectedChar", RPAREN)
        ELSE IF a.rest[1] = COMMA THEN parse_args(Tail(a.rest), Append(acc, a.tree))
        ELSE IF a.rest[1] = RPAREN THEN Parsed(NoTree, Append(acc, a.tree), Tail(a.rest))
        ELSE ParseError("ExpectedChar", COMMA)

\* Tree::from_str: the whole string must be one tree
tree_from_str(s) ==
    LET r == from_slice(s)
    IN  IF r.ok /\ r.rest # <<>> THEN ParseError("Unexpected", r.rest[1]) ELSE r

(***************************************************************************)
(* Descriptor::from_tree and Descriptor::from_str.                         *)
(***************************************************************************)
FromOk(e) == [tag |-> "Ok", d |-> e, ms |-> NoMs, byte |-> 0]
FromMs(ms) == [tag |-> "Ok", d |-> NoDescriptor, ms |-> ms, byte |-> 0]
FromErr(err, byte) == [tag |-> err, d |-> NoDescriptor, ms |-> NoMs, byte |-> byte]

\* the keys named by the terminals t[i..], or <<0>> if one of them is no key
RECURSIVE keys_from_trees(_, _)
keys_from_trees(t, i) ==
    IF i > Len(t) THEN <<>>
    ELSE LET k == key_from_str(t[i].name)
             rest == keys_from_trees(t, i + 1)
         IN  IF t[i].args # <<>> \/ ~k.ok \/ rest = <<0>> THEN <<0>> ELSE <<k.k>> \o rest

\* Miniscript::from_tree, for the fragments of the model
ms_from_tree(top) ==
    LET nargs == Len(top.args)
        leaf == nargs = 1 /\ top.args[1].args = <<>>
    IN  IF top.name = S_c_pk_k /\ leaf
        THEN LET k == key_from_str(top.args[1].name)
             IN  IF k.ok THEN FromMs(pk_k(k.k)) ELSE FromErr("BadKey", 0)
        ELSE IF top.name \in {S_older, S_after} /\ leaf
        THEN LET n == parse_num(top.args[1].name)
             IN  IF n.ok /\ n.n >= 1
                 THEN FromMs(IF top.name = S_older THEN older(n.n) ELSE after(n.n))
                 ELSE FromErr("BadNumber", 0)
        ELSE IF top.name = S_multi /\ nargs >= 2 /\ top.args[1].args = <<>>
        THEN LET k == parse_num(top.args[1].name)
                 keys == keys_from_trees(top.args, 2)
             IN  IF ~k.ok \/ k.n < 1 \/ k.n > nargs - 1 THEN FromErr("BadNumber", 0)
                 ELSE IF keys = <<0>> THEN FromErr("BadKey", 0)
                 ELSE FromMs(multi(k.n, keys))
        ELSE FromErr("Unexpected", 0)

\* expression::terminal with Pk::from_str(pk).map(Descriptor::<tag>)
terminal(arg, tag) ==
    IF arg.args # <<>> THEN FromErr("Unexpected", 0)
    ELSE LET k == key_from_str(arg.name)
         IN  IF k.ok THEN FromOk(Descriptor(tag, k.k, NoMs)) ELSE FromErr("BadKey", 0)

\* a miniscript wrapped in a script envelope, or its error
wrap_ms(r, tag) == IF r.tag = "Ok" THEN FromOk(Descriptor(tag, 0, r.ms)) ELSE r

\* from_tree without the special cases under "sh"
from_tree_NoNestedSegwit(top) ==
    LET nargs == Len(top.args)
    IN  IF top.name = S_pk /\ nargs = 1 THEN terminal(top.args[1], "Pk")
        ELSE IF top.name = S_pkh /\ nargs = 1 THEN terminal(top.args[1], "Pkh")
        ELSE IF top.name = S_wpkh /\ nargs = 1 THEN terminal(top.args[1], "Wpkh")
        ELSE IF top.name = S_sh /\ nargs = 1 THEN wrap_ms(ms_from_tree(top.args[1]), "Sh")
        ELSE IF top.name = S_wsh /\ nargs = 1 THEN wrap_ms(ms_from_tree(top.args[1]), "Wsh")
        ELSE wrap_ms(ms_from_tree(top), "Bare")

\* Descriptor::from_tree: dispatch on (name, number of arguments)
from_tree(top) ==
    LET nargs == Len(top.args)
    IN  IF top.name = S_pk /\ nargs = 1 THEN terminal(top.args[1], "Pk")
        ELSE IF top.name = S_pkh /\ nargs = 1 THEN terminal(top.args[1], "Pkh")
        ELSE IF top.name = S_wpkh /\ nargs = 1 THEN terminal(top.args[1], "Wpkh")
        ELSE IF top.name = S_sh /\ nargs = 1
        THEN LET newtop == top.args[1]
             IN  IF newtop.name = S_wsh /\ Len(newtop.args) = 1
                 THEN wrap_ms(ms_from_tree(newtop.args[1]), "ShWsh")
                 ELSE IF newtop.name = S_wpkh /\ Len(newtop.args) = 1
                 THEN terminal(newtop.args[1], "ShWpkh")
                 ELSE wrap_ms(ms_from_tree(top.args[1]), "Sh")
        ELSE IF top.name = S_wsh /\ nargs = 1 THEN wrap_ms(ms_from_tree(top.args[1]), "Wsh")
        ELSE wrap_ms(ms_from_tree(top), "Bare")

\* the printable-character bounds from_str compares each byte with
PRINTABLE_MIN == 20
PRINTABLE_MAX == 127

\* the first byte of s[i..] that from_str's loop rejects, -1 if there is none
RECURSIVE first_unprintable(_, _)
first_unprintable(s, i) ==
    IF i > Len(s) THEN -1
    ELSE IF s[i] < PRINTABLE_MIN \/ s[i] > PRINTABLE_MAX THEN s[i]
    ELSE first_unprintable(s, i + 1)

\* Descriptor::from_str
from_str(s) ==
    LET ch == first_unprintable(s, 1)
        top == tree_from_str(s)
    IN  IF ch # -1 THEN FromErr("Unprintable", ch)
        ELSE IF ~top.ok THEN FromErr(top.err, top.byte)
        ELSE from_tree(top.tree)

(***************************************************************************)
(* Display, and the strings given to from_str.                             *)
(***************************************************************************)
RECURSIVE keys_to_string(_, _)
\* ",K" for each of the keys[i..]
keys_to_string(keys, i) ==
    IF i > Len(keys) THEN <<>>
    ELSE <<COMMA>> \o key_to_string(keys[i]) \o keys_to_string(keys, i + 1)

\* Display for Miniscript, for the fragments of the model
ms_to_string(ms) ==
    CASE ms.node = "c:pk_k" -> Fn(S_c_pk_k, key_to_string(ms.key))
      [] ms.node = "older" -> Fn(S_older, num_to_string(ms.n))
      [] ms.node = "after" -> Fn(S_after, num_to_string(ms.n))
      [] ms.node = "multi" -> Fn(S_multi, num_to_string(ms.k) \o keys_to_string(ms.keys, 1))

\* Display that prints the nested segwit script envelope as plain wsh(..)
to_string_ShWshAsWsh(e) ==
    CASE e.tag = "Bare" -> ms_to_string(e.ms)
      [] e.tag = "Pk" -> Fn(S_pk, key_to_string(e.pk))
      [] e.tag = "Pkh" -> Fn(S_pkh, key_to_string(e.pk))
      [] e.tag = "Wpkh" -> Fn(S_wpkh, key_to_string(e.pk))
      [] e.tag = "ShWpkh" -> Fn(S_sh, Fn(S_wpkh, key_to_string(e.pk)))
      [] e.tag = "Sh" -> Fn(S_sh, ms_to_string(e.ms))
      [] e.tag = "Wsh" -> Fn(S_wsh, ms_to_string(e.ms))
      [] e.tag = "ShWsh" -> Fn(S_wsh, ms_to_string(e.ms))

\* Display for Descriptor
to_string(e) ==
    CASE e.tag = "Bare" -> ms_to_string(e.ms)
      [] e.tag = "Pk" -> Fn(S_pk, key_to_string(e.pk))
      [] e.tag = "Pkh" -> Fn(S_pkh, key_to_string(e.pk))
      [] e.tag = "Wpkh" -> Fn(S_wpkh, key_to_string(e.pk))
      [] e.tag = "ShWpkh" -> Fn(S_sh, Fn(S_wpkh, key_to_string(e.pk)))
      [] e.tag = "Sh" -> Fn(S_sh, ms_to_string(e.ms))
      [] e.tag = "Wsh" -> Fn(S_wsh, ms_to_string(e.ms))
      [] e.tag = "ShWsh" -> Fn(S_sh, Fn(S_wsh, ms_to_string(e.ms)))

\* the characters tried: the control bytes 0x14, 0x1f and 0x13, the space,
\* DEL, and a two-byte UTF-8 character; then further control bytes
ProbeChar(i) ==
    CASE i = 1 -> <<20>> [] i = 2 -> <<31>> [] i = 3 -> <<19>> [] i = 4 -> <<32>>
      [] i = 5 -> <<127>> [] i = 6 -> <<195, 169>> [] OTHER -> <<i>>

\* the malformed strings of tests::parse_descriptor
MalformedStrings ==
    {<<LPAREN>>, <<LPAREN, 120, LPAREN, RPAREN>>, <<LPAREN, 127, LPAREN, RPAREN, 51>>,
     Fn(S_pk, <<>>)}

\* s with the character c inserted after its first i bytes
Inserted(s, i, c) == SubSeq(s, 1, i) \o c \o SubSeq(s, i + 1, Len(s))

\* strings whose top-level name or number of arguments is not one of the
\* envelope forms: pk(A,B), PK(A), pkh(older(16)), sh(A,B), sh(wsh(A,B)),
\* sh(wpkh(A,B)), sh(pk(A)), sh(sh(older(16))), wsh(older(16),older(16)),
\* wsh(wpkh(A)), wpkh(), multi(1,A,B,A)
OtherShapes ==
    LET A == key_to_string(1)
        AB == key_to_string(1) \o <<COMMA>> \o key_to_string(2)
        o16 == Fn(S_older, num_to_string(16))
    IN  {Fn(S_pk, AB), Fn(<<80, 75>>, A), Fn(S_pkh, o16), Fn(S_sh, AB),
         Fn(S_sh, Fn(S_wsh, AB)), Fn(S_sh, Fn(S_wpkh, AB)), Fn(S_sh, Fn(S_pk, A)),
         Fn(S_sh, Fn(S_sh, o16)), Fn(S_wsh, o16 \o <<COMMA>> \o o16),
         Fn(S_wsh, Fn(S_wpkh, A)), Fn(S_wpkh, <<>>),
         Fn(S_multi, num_to_string(1) \o <<COMMA>> \o AB \o <<COMMA>> \o A)}

\* strings written by hand, as in the tests: sh(wsh(older(16))), sh(wpkh(A)),
\* and older(016), which is not the printed form of its descriptor
WrittenStrings ==
    {Fn(S_sh, Fn(S_wsh, Fn(S_older, <<49, 54>>))), Fn(S_sh, Fn(S_wpkh, <<65>>)),
     Fn(S_older, <<48, 49, 54>>)}

\* the printed descriptors, the malformed strings, the other shapes, and each
\* of them with one probe character inserted anywhere
Strings ==
    LET base == {to_string(e) : e \in Descriptors} \cup MalformedStrings \cup OtherShapes
                \cup WrittenStrings
    IN  base \cup UNION {{Inserted(s, i, ProbeChar(c)) : i \in 0..Len(s), c \in 1..NumProbes}
                         : s \in base}

(***************************************************************************)
(* The script AST of src/descript: fragments of the four types E, W, V, T. *)
(* A fragment is a record: its type, its variant, and the variant's key,   *)
(* threshold, keys, number, hash and sub-fragments.                        *)
(***************************************************************************)
OP_IF == 99
OP_NOTIF == 100
OP_ELSE == 103
OP_ENDIF == 104
OP_VERIFY == 105
OP_IFDUP == 115
OP_SWAP == 124
OP_SIZE == 130
OP_OR == 133
OP_ADD == 147
OP_BOOLOR == 155
OP_HASH256 == 170
OP_CHECKSIGVERIFY == 173
OP_CHECKMULTISIGVERIFY == 175
OP_RESERVED == 80

\* the keys of the tests' pubkeys(n): 33 bytes, the first 2 or 3
pubkeys(i) == <<2 + (i % 2)>> \o Rep(31, 0) \o <<i>>

\* the 32-byte hashes of the model
Hashes == {Rep(32, 93), Rep(32, 20)}

AstElem(ty, node, pk, k, pks, n, h, sub) ==
    [ty |-> ty, node |-> node, pk |-> pk, k |-> k, pks |-> pks, n |-> n, h |-> h, sub |-> sub]

\* no fragment
NoAst == AstElem("none", "none", <<>>, 0, <<>>, 0, <<>>, <<>>)

E_CheckSig(pk) == AstElem("E", "CheckSig", pk, 0, <<>>, 0, <<>>, <<>>)
E_CheckMultiSig(k, pks) == AstElem("E", "CheckMultiSig", <<>>, k, pks, 0, <<>>, <<>>)
E_Threshold(k, head, tail) == AstElem("E", "Threshold", <<>>, k, <<>>, 0, <<>>, <<head>> \o tail)
W_CheckSig(pk) == AstElem("W", "CheckSig", pk, 0, <<>>, 0, <<>>, <<>>)
V_CheckSig(pk) == AstElem("V", "CheckSig", pk, 0, <<>>, 0, <<>>, <<>>)
V_CheckMultiSig(k, pks) == AstElem("V", "CheckMultiSig", <<>>, k, pks, 0, <<>>, <<>>)
V_And(l, r) == AstElem("V", "And", <<>>, 0, <<>>, 0, <<>>, <<l, r>>)
V_SwitchOrT(l, r) == AstElem("V", "SwitchOrT", <<>>, 0, <<>>, 0, <<>>, <<l, r>>)
T_Time(n) == AstElem("T", "Time", <<>>, 0, <<>>, n, <<>>, <<>>)
T_HashEqual(h) == AstElem("T", "HashEqual", <<>>, 0, <<>>, 0, h, <<>>)
T_And(l, r) == AstElem("T", "And", <<>>, 0, <<>>, 0, <<>>, <<l, r>>)
T_ParallelOr(l, r) == AstElem("T", "ParallelOr", <<>>, 0, <<>>, 0, <<>>, <<l, r>>)
T_CascadeOr(l, r) == AstElem("T", "CascadeOr", <<>>, 0, <<>>, 0, <<>>, <<l, r>>)
T_SwitchOr(l, r) == AstElem("T", "SwitchOr", <<>>, 0, <<>>, 0, <<>>, <<l, r>>)
T_SwitchOrV(l, r) == AstElem("T", "SwitchOrV", <<>>, 0, <<>>, 0, <<>>, <<l, r>>)
T_CastE(e) == AstElem("T", "CastE", <<>>, 0, <<>>, 0, <<>>, <<e>>)

\* <k> <pks...> <n>
multisig_pushes(k, pks) ==
    push_int(k) \o Concat([i \in 1..Len(pks) |-> push_slice(pks[i])]) \o push_int(Len(pks))

RECURSIVE ast_serialize(_)
\* serialize with the if-else fragments all written as the plain
\* IF .. ELSE .. ENDIF, without the OP_VERIFY or OP_1 that tells them apart
ast_serialize_PlainIfElse(a) ==
    LET s(i) == ast_serialize(a.sub[i])
        f == <<a.ty, a.node>>
    IN  CASE f = <<"E", "CheckSig">> -> push_slice(a.pk) \o <<OP_CHECKSIG>>
          [] f = <<"W", "CheckSig">> -> <<OP_SWAP>> \o push_slice(a.pk) \o <<OP_CHECKSIG>>
          [] f = <<"V", "CheckSig">> -> push_slice(a.pk) \o <<OP_CHECKSIGVERIFY>>
          [] f = <<"E", "CheckMultiSig">> -> multisig_pushes(a.k, a.pks) \o <<OP_CHECKMULTISIG>>
          [] f = <<"V", "CheckMultiSig">> ->
                multisig_pushes(a.k, a.pks) \o <<OP_CHECKMULTISIGVERIFY>>
          [] f = <<"E", "Threshold">> ->
                s(1) \o Concat([i \in 1..(Len(a.sub) - 1) |-> s(i + 1) \o <<OP_ADD>>])
                \o push_int(a.k) \o <<OP_EQUAL>>
          [] f = <<"T", "Time">> -> push_int(a.n) \o <<OP_CSV>>
          [] f = <<"T", "HashEqual">> ->
                <<OP_SIZE>> \o push_int(32) \o <<OP_EQUALVERIFY, OP_HASH256>>
                \o push_slice(a.h) \o <<OP_EQUAL>>
          [] f \in {<<"V", "And">>, <<"T", "And">>} -> s(1) \o s(2)
          [] f = <<"T", "ParallelOr">> -> s(1) \o s(2) \o <<OP_BOOLOR>>
          [] f = <<"T", "CascadeOr">> -> s(1) \o <<OP_IFDUP, OP_NOTIF>> \o s(2) \o <<OP_ENDIF>>
          [] f \in {<<"T", "SwitchOr">>, <<"V", "SwitchOrT">>, <<"T", "SwitchOrV">>} ->
                <<OP_IF>> \o s(1) \o <<OP_ELSE>> \o s(2) \o <<OP_ENDIF>>
          [] f = <<"T", "CastE">> -> s(1)

\* AstElem::serialize: the Script template of each variant, the sub-fragments
\* in their place
ast_serialize(a) ==
    LET s(i) == ast_serialize(a.sub[i])
        f == <<a.ty, a.node>>
    IN  CASE f = <<"E", "CheckSig">> -> push_slice(a.pk) \o <<OP_CHECKSIG>>
          [] f = <<"W", "CheckSig">> -> <<OP_SWAP>> \o push_slice(a.pk) \o <<OP_CHECKSIG>>
          [] f = <<"V", "CheckSig">> -> push_slice(a.pk) \o <<OP_CHECKSIGVERIFY>>
          [] f = <<"E", "CheckMultiSig">> -> multisig_pushes(a.k, a.pks) \o <<OP_CHECKMULTISIG>>
          [] f = <<"V", "CheckMultiSig">> ->
                multisig_pushes(a.k, a.pks) \o <<OP_CHECKMULTISIGVERIFY>>
          [] f = <<"E", "Threshold">> ->
                s(1) \o Concat([i \in 1..(Len(a.sub) - 1) |-> s(i + 1) \o <<OP_ADD>>])
                \o push_int(a.k) \o <<OP_EQUAL>>
          [] f = <<"T", "Time">> -> push_int(a.n) \o <<OP_CSV>>
          [] f = <<"T", "HashEqual">> ->
                <<OP_SIZE>> \o push_int(32) \o <<OP_EQUALVERIFY, OP_HASH256>>
                \o push_slice(a.h) \o <<OP_EQUAL>>
          [] f \in {<<"V", "And">>, <<"T", "And">>} -> s(1) \o s(2)
          [] f = <<"T", "ParallelOr">> -> s(1) \o s(2) \o <<OP_BOOLOR>>
          [] f = <<"T", "CascadeOr">> -> s(1) \o <<OP_IFDUP, OP_NOTIF>> \o s(2) \o <<OP_ENDIF>>
          [] f = <<"T", "SwitchOr">> -> <<OP_IF>> \o s(1) \o <<OP_ELSE>> \o s(2) \o <<OP_ENDIF>>
          [] f = <<"V", "SwitchOrT">> ->
                <<OP_IF>> \o s(1) \o <<OP_ELSE>> \o s(2) \o <<OP_ENDIF, OP_VERIFY>>
          [] f = <<"T", "SwitchOrV">> ->
                <<OP_IF>> \o s(1) \o <<OP_ELSE>> \o s(2) \o <<OP_ENDIF, OP_PUSHNUM_1>>
          [] f = <<"T", "CastE">> -> s(1)

\* Descript::serialize
serialize(t) == ast_serialize(t)

(***************************************************************************)
(* lex: a Script byte program to its tokens, or the first error.           *)
(***************************************************************************)
OP_TOALTSTACK == 107
OP_FROMALTSTACK == 108
OP_DROP == 117
OP_TUCK == 125
OP_0NOTEQUAL == 146
OP_BOOLAND == 154

Token(t, n, data) == [t |-> t, n |-> n, data |-> data]

Tok(t) == Token(t, 0, <<>>)

\* the token of an opcode that is not a push, "" if it has none
OpToken(op) ==
    CASE op = OP_BOOLAND -> "BoolAnd" [] op = OP_BOOLOR -> "BoolOr" [] op = OP_ADD -> "Add"
      [] op = OP_EQUAL -> "Equal" [] op = OP_EQUALVERIFY -> "EqualVerify"
      [] op = OP_CHECKSIG -> "CheckSig" [] op = OP_CHECKSIGVERIFY -> "CheckSigVerify"
      [] op = OP_CHECKMULTISIG -> "CheckMultiSig"
      [] op = OP_CHECKMULTISIGVERIFY -> "CheckMultiSigVerify"
      [] op = OP_CSV -> "CheckSequenceVerify"
      [] op = OP_FROMALTSTACK -> "FromAltStack" [] op = OP_TOALTSTACK -> "ToAltStack"
      [] op = OP_DROP -> "Drop" [] op = OP_DUP -> "Dup" [] op = OP_IF -> "If"
      [] op = OP_IFDUP -> "IfDup" [] op = OP_NOTIF -> "NotIf" [] op = OP_ELSE -> "Else"
      [] op = OP_ENDIF -> "EndIf" [] op = OP_0NOTEQUAL -> "ZeroNotEqual"
      [] op = OP_SIZE -> "Size" [] op = OP_SWAP -> "Swap" [] op = OP_TUCK -> "Tuck"
      [] op = OP_VERIFY -> "Verify" [] op = OP_HASH256 -> "Hash256"
      [] OTHER -> ""

Lexed(tok) == [err |-> "", tok |-> tok]

LexError(err) == [err |-> err, tok |-> Tok("")]

\* the token of a data push made with the shortest push opcode: a key, a
\* hash, or a number in its minimal encoding that no OP_n can push
PushToken(data) ==
    LET num == read_scriptint(data)
    IN  IF Len(data) = 33
        THEN IF data[1] \in {2, 3} THEN Lexed(Token("Pubkey", 0, data))
             ELSE LexError("InvalidPush")
        ELSE IF Len(data) = 32 THEN Lexed(Token("Hash32", 0, data))
        ELSE IF Len(data) = 20 THEN Lexed(Token("Hash20", 0, data))
        ELSE IF Len(data) > 4 THEN LexError("NumberOverflow")
        ELSE IF ~num.ok THEN LexError("NonMinimalNumber")
        ELSE IF num.n < 0 THEN LexError("InvalidPush")
        ELSE IF push_int(num.n) # push_slice(data) THEN LexError("NonMinimalNumber")
        ELSE Lexed(Token("Number", num.n, <<>>))

\* LexOne without the test that a push uses the shortest push opcode
LexOne_AnyPushOpcode(script) ==
    LET op == script[1]
        n == Len(script)
        hdr == IF op <= 75 THEN 1 ELSE IF op = OP_PUSHDATA1 THEN 2
               ELSE IF op = OP_PUSHDATA2 THEN 3 ELSE 5
        size == IF op <= 75 THEN op
                ELSE IF n < hdr THEN 0
                ELSE IF op = OP_PUSHDATA1 THEN script[2]
                ELSE IF op = OP_PUSHDATA2 THEN script[2] + 256 * script[3]
                ELSE script[2] + 256 * script[3] + 65536 * script[4]
        r == PushToken(SubSeq(script, hdr + 1, hdr + size))
    IN  IF op = OP_PUSHBYTES_0 THEN [err |-> "", tok |-> Token("Number", 0, <<>>), len |-> 1]
        ELSE IF op <= OP_PUSHDATA4
        THEN IF n < hdr \/ n < hdr + size THEN [err |-> "EarlyEnd", tok |-> Tok(""), len |-> n]
             ELSE [err |-> r.err, tok |-> r.tok, len |-> hdr + size]
        ELSE IF op >= OP_PUSHNUM_1 /\ op <= OP_PUSHNUM_1 + 15
        THEN [err |-> "", tok |-> Token("Number", op - OP_PUSHNUM_1 + 1, <<>>), len |-> 1]
        ELSE IF OpToken(op) = "" THEN [err |-> "InvalidOpcode", tok |-> Tok(""), len |-> 1]
        ELSE [err |-> "", tok |-> Tok(OpToken(op)), len |-> 1]

\* the instruction at the head of a script: [err, tok, len], len its bytes
LexOne(script) ==
    LET op == script[1]
        n == Len(script)
        hdr == IF op <= 75 THEN 1 ELSE IF op = OP_PUSHDATA1 THEN 2
               ELSE IF op = OP_PUSHDATA2 THEN 3 ELSE 5
        size == IF op <= 75 THEN op
                ELSE IF n < hdr THEN 0
                ELSE IF op = OP_PUSHDATA1 THEN script[2]
                ELSE IF op = OP_PUSHDATA2 THEN script[2] + 256 * script[3]
                ELSE script[2] + 256 * script[3] + 65536 * script[4]
        minimal == IF op <= 75 THEN TRUE
                   ELSE IF op = OP_PUSHDATA1 THEN size > 75
                   ELSE IF op = OP_PUSHDATA2 THEN size > 255 ELSE size > 65535
        r == PushToken(SubSeq(script, hdr + 1, hdr + size))
    IN  IF op = OP_PUSHBYTES_0 THEN [err |-> "", tok |-> Token("Number", 0, <<>>), len |-> 1]
        ELSE IF op <= OP_PUSHDATA4
        THEN IF n < hdr \/ n < hdr + size THEN [err |-> "EarlyEnd", tok |-> Tok(""), len |-> n]
             ELSE IF ~minimal THEN [err |-> "NonMinimalPush", tok |-> Tok(""), len |-> n]
             ELSE [err |-> r.err, tok |-> r.tok, len |-> hdr + size]
        ELSE IF op >= OP_PUSHNUM_1 /\ op <= OP_PUSHNUM_1 + 15
        THEN [err |-> "", tok |-> Token("Number", op - OP_PUSHNUM_1 + 1, <<>>), len |-> 1]
        ELSE IF OpToken(op) = "" THEN [err |-> "InvalidOpcode", tok |-> Tok(""), len |-> 1]
        ELSE [err |-> "", tok |-> Tok(OpToken(op)), len |-> 1]

RECURSIVE lex_from(_)
\* the tokens of a script, left to right, stopping at the first error
lex_from(script) ==
    IF script = <<>> THEN [err |-> "", toks |-> <<>>]
    ELSE LET one == LexOne(script)
             rest == lex_from(SubSeq(script, one.len + 1, Len(script)))
         IN  IF one.err # "" THEN [err |-> one.err, toks |-> <<>>]
             ELSE IF rest.err # "" THEN rest
             ELSE [err |-> "", toks |-> <<one.tok>> \o rest.toks]

RECURSIVE collapse(_)
\* OP_HASH256 and the 32-byte push after it become the token Hash256(h)
collapse(toks) ==
    IF toks = <<>> THEN <<>>
    ELSE IF Len(toks) >= 2 /\ toks[1].t = "Hash256" /\ toks[2].t = "Hash32"
    THEN <<Token("Hash256", 0, toks[2].data)>> \o collapse(SubSeq(toks, 3, Len(toks)))
    ELSE <<toks[1]>> \o collapse(Tail(toks))

\* lex::lex
lex(script) ==
    LET r == lex_from(script)
    IN  IF r.err # "" THEN r ELSE [err |-> "", toks |-> collapse(r.toks)]

(***************************************************************************)
(* The decoder: recognizers of the four fragment types, reading the tokens *)
(* right to left.  toks[1..e] are the tokens not yet read; a recognizer    *)
(* returns the fragment that ends at toks[e] and the new e, or an error    *)
(* with the token it could not accept.                                     *)
(***************************************************************************)
\* the token at the cursor, "start" in front of the first
TokAt(toks, e) == IF e >= 1 THEN toks[e] ELSE Tok("start")

Done(ast, pos) == [err |-> "", ast |-> ast, pos |-> pos, tok |-> Tok("")]

Fail(err, tok) == [err |-> err, ast |-> NoAst, pos |-> 0, tok |-> tok]

\* the token at toks[e] is not what the fragment needs
Reject(toks, e) ==
    IF e >= 1 THEN Fail("Unexpected", toks[e]) ELSE Fail("EarlyEnd", Tok("start"))

\* the tokens that end a V fragment
VEnd == {"CheckSigVerify", "CheckMultiSigVerify", "Verify"}

\* <k> <n keys> <n> in front of toks[e] (CHECKMULTISIG or its VERIFY form)
parse_multisig(toks, e, ty) ==
    LET n == TokAt(toks, e - 1).n
        k == TokAt(toks, e - 2 - n).n
        keys == [i \in 1..n |-> TokAt(toks, e - 2 - n + i).data]
    IN  IF TokAt(toks, e - 1).t # "Number" THEN Reject(toks, e - 1)
        ELSE IF n > 20 THEN Fail("CmsTooManyKeys", TokAt(toks, e - 1))
        ELSE IF \E i \in 1..n : TokAt(toks, e - 2 - n + i).t # "Pubkey"
        THEN Fail("Unexpected", Tok("CheckMultiSig"))
        ELSE IF TokAt(toks, e - 2 - n).t # "Number" THEN Reject(toks, e - 2 - n)
        ELSE IF k > n THEN Fail("Unexpected", TokAt(toks, e - 2 - n))
        ELSE Done(AstElem(ty, "CheckMultiSig", <<>>, k, keys, 0, <<>>, <<>>), e - 3 - n)

\* the recognizer of one fragment type, or of the tail of a threshold: the
\* recognizers call each other through it
RECURSIVE parse_frag(_, _, _)

\* W: SWAP <pk> CHECKSIG
parse_W(toks, e) ==
    IF TokAt(toks, e).t # "CheckSig" THEN Reject(toks, e)
    ELSE IF TokAt(toks, e - 1).t # "Pubkey" THEN Reject(toks, e - 1)
    ELSE IF TokAt(toks, e - 2).t # "Swap" THEN Reject(toks, e - 2)
    ELSE Done(W_CheckSig(toks[e - 1].data), e - 3)

\* the W fragments of a threshold, each followed by ADD: [err, ws, pos, tok]
parse_tail(toks, e) ==
    IF TokAt(toks, e).t # "Add" THEN [err |-> "", ws |-> <<>>, pos |-> e, tok |-> Tok("")]
    ELSE LET w == parse_W(toks, e - 1)
             more == parse_frag("tail", toks, w.pos)
         IN  IF w.err # "" THEN [err |-> w.err, ws |-> <<>>, pos |-> 0, tok |-> w.tok]
             ELSE IF more.err # "" THEN more
             ELSE [err |-> "", ws |-> Append(more.ws, w.ast), pos |-> more.pos,
                   tok |-> Tok("")]

\* E: <pk> CHECKSIG, <k> <pks> <n> CHECKMULTISIG, E (W ADD)+ <k> EQUAL
parse_E(toks, e) ==
    LET cur == TokAt(toks, e).t
    IN  IF cur = "CheckSig"
        THEN IF TokAt(toks, e - 1).t = "Pubkey"
             THEN Done(E_CheckSig(toks[e - 1].data), e - 2)
             ELSE Reject(toks, e - 1)
        ELSE IF cur = "CheckMultiSig" THEN parse_multisig(toks, e, "E")
        ELSE IF cur = "Equal"
        THEN IF TokAt(toks, e - 1).t # "Number" THEN Reject(toks, e - 1)
             ELSE LET tail == parse_frag("tail", toks, e - 2)
                      head == parse_frag("E", toks, tail.pos)
                  IN  IF tail.err # "" THEN Fail(tail.err, tail.tok)
                      ELSE IF tail.ws = <<>> THEN Fail("ParseThreshold", TokAt(toks, e - 2))
                      ELSE IF head.err # "" THEN head
                      ELSE IF toks[e - 1].n > Len(tail.ws) + 1
                      THEN Fail("ParseThreshold", toks[e - 1])
                      ELSE Done(E_Threshold(toks[e - 1].n, head.ast, tail.ws), head.pos)
        ELSE Reject(toks, e)

\* IF x ELSE y ENDIF in front of toks[e + 1], x and y of type ty
parse_if_else(toks, e, ty, right, left) ==
    IF right.err # "" THEN right
    ELSE IF TokAt(toks, right.pos).t # "Else" THEN Reject(toks, right.pos)
    ELSE IF left.err # "" THEN left
    ELSE IF TokAt(toks, left.pos).t # "If" THEN Reject(toks, left.pos)
    ELSE Done(AstElem(ty[1], ty[2], <<>>, 0, <<>>, 0, <<>>, <<left.ast, right.ast>>),
              left.pos - 1)

\* V: the fragment that ends at toks[e], and the V fragments in front of it
parse_V(toks, e) ==
    LET cur == TokAt(toks, e).t
        atom ==
            IF cur = "CheckSigVerify"
            THEN IF TokAt(toks, e - 1).t = "Pubkey"
                 THEN Done(V_CheckSig(toks[e - 1].data), e - 2)
                 ELSE Reject(toks, e - 1)
            ELSE IF cur = "CheckMultiSigVerify" THEN parse_multisig(toks, e, "V")
            ELSE IF cur = "Verify"
            THEN IF TokAt(toks, e - 1).t # "EndIf" THEN Reject(toks, e - 1)
                 ELSE LET right == parse_frag("T", toks, e - 2)
                          left == parse_frag("T", toks, right.pos - 1)
                      IN  parse_if_else(toks, e, <<"V", "SwitchOrT">>, right, left)
            ELSE Reject(toks, e)
        front == parse_frag("V", toks, atom.pos)
    IN  IF atom.err # "" THEN atom
        ELSE IF TokAt(toks, atom.pos).t \in VEnd /\ front.err = ""
        THEN Done(V_And(front.ast, atom.ast), front.pos)
        ELSE atom

\* T: the fragment that ends at toks[e], with the V fragments in front of it;
\* ParallelOr before CascadeOr before SwitchOr before SwitchOrV
parse_T(toks, e) ==
    LET cur == TokAt(toks, e)
        atom ==
            IF cur.t = "CheckSequenceVerify"
            THEN IF TokAt(toks, e - 1).t = "Number" /\ TokAt(toks, e - 1).n >= 1
                 THEN Done(T_Time(toks[e - 1].n), e - 2)
                 ELSE Reject(toks, e - 1)
            ELSE IF cur.t = "Equal" /\ TokAt(toks, e - 1).t = "Hash256"
            THEN IF Len(toks[e - 1].data) # 32 THEN Reject(toks, e - 1)
                 ELSE IF TokAt(toks, e - 2).t # "EqualVerify" THEN Reject(toks, e - 2)
                 ELSE IF TokAt(toks, e - 3) # Token("Number", 32, <<>>) THEN Reject(toks, e - 3)
                 ELSE IF TokAt(toks, e - 4).t # "Size" THEN Reject(toks, e - 4)
                 ELSE Done(T_HashEqual(toks[e - 1].data), e - 5)
            ELSE IF cur.t = "BoolOr"
            THEN LET w == parse_W(toks, e - 1)
                     l == parse_frag("E", toks, w.pos)
                 IN  IF w.err # "" THEN w
                     ELSE IF l.err # "" THEN l
                     ELSE Done(T_ParallelOr(l.ast, w.ast), l.pos)
            ELSE IF cur.t = "EndIf"
            THEN LET right == parse_frag("T", toks, e - 1)
                     l == parse_frag("E", toks, right.pos - 2)
                     left == parse_frag("T", toks, right.pos - 1)
                 IN  IF right.err # "" THEN right
                     ELSE IF TokAt(toks, right.pos).t = "NotIf"
                     THEN IF TokAt(toks, right.pos - 1).t # "IfDup"
                          THEN Reject(toks, right.pos - 1)
                          ELSE IF l.err # "" THEN l
                          ELSE Done(T_CascadeOr(l.ast, right.ast), l.pos)
                     ELSE parse_if_else(toks, e, <<"T", "SwitchOr">>, right, left)
            ELSE IF cur = Token("Number", 1, <<>>) /\ TokAt(toks, e - 1).t = "EndIf"
            THEN LET right == parse_frag("V", toks, e - 2)
                     left == parse_frag("V", toks, right.pos - 1)
                 IN  parse_if_else(toks, e, <<"T", "SwitchOrV">>, right, left)
            ELSE LET x == parse_frag("E", toks, e)
                 IN  IF x.err # "" THEN x ELSE Done(T_CastE(x.ast), x.pos)
        front == parse_frag("V", toks, atom.pos)
    IN  IF atom.err # "" THEN atom
        ELSE IF TokAt(toks, atom.pos).t \in VEnd /\ front.err = ""
        THEN Done(T_And(front.ast, atom.ast), front.pos)
        ELSE atom

\* the fragment that ends at toks[e], whatever its type
parse_any(toks, e) ==
    LET t == parse_frag("T", toks, e)
        v == parse_frag("V", toks, e)
        w == parse_W(toks, e)
    IN  IF t.err = "" THEN t ELSE IF v.err = "" THEN v ELSE IF w.err = "" THEN w ELSE t

parse_frag(ty, toks, e) ==
    CASE ty = "E" -> parse_E(toks, e)
      [] ty = "V" -> parse_V(toks, e)
      [] ty = "T" -> parse_T(toks, e)
      [] ty = "tail" -> parse_tail(toks, e)
      [] ty = "any" -> parse_any(toks, e)

\* astelem::parse_subexpression: the fragment at the end of the tokens
parse_subexpression(toks) == parse_frag("any", toks, Len(toks))

\* AstElem::into_t
into_t(r) ==
    IF r.err # "" THEN r
    ELSE IF r.ast.ty = "T" THEN r
    ELSE IF r.ast.ty = "E" THEN Done(T_CastE(r.ast), r.pos)
    ELSE Fail("Unexpected", Tok(r.ast.node))

(***************************************************************************)
(* Descript::parse and the inputs of the tests.                            *)
(***************************************************************************)
ParseOk(t) == [tag |-> "Ok", tree |-> t, tok |-> Tok("")]

ParseErr(err, tok) == [tag |-> err, tree |-> NoAst, tok |-> tok]

\* parse that returns the top fragment without looking for leading tokens
parse_IgnoresLeading(script) ==
    LET tokens == lex(script)
        top == into_t(parse_subexpression(tokens.toks))
    IN  IF tokens.err # "" THEN ParseErr(tokens.err, Tok(""))
        ELSE IF top.err # "" THEN ParseErr(top.err, top.tok)
        ELSE ParseOk(top.ast)

\* parse with the test for a leading token inverted
parse_UnexpectedAtStart(script) ==
    LET tokens == lex(script)
        top == into_t(parse_subexpression(tokens.toks))
    IN  IF tokens.err # "" THEN ParseErr(tokens.err, Tok(""))
        ELSE IF top.err # "" THEN ParseErr(top.err, top.tok)
        ELSE IF top.pos < 1 THEN ParseErr("Unexpected", Tok("start"))
        ELSE ParseOk(top.ast)

\* Descript::parse
parse(script) ==
    LET tokens == lex(script)
        top == into_t(parse_subexpression(tokens.toks))
    IN  IF tokens.err # "" THEN ParseErr(tokens.err, Tok(""))
        ELSE IF top.err # "" THEN ParseErr(top.err, top.tok)
        ELSE IF top.pos >= 1 THEN ParseErr("Unexpected", tokens.toks[top.pos])
        ELSE ParseOk(top.ast)

\* the trees of tests::serialize, with the keys pubkeys(1..5)
TestTrees ==
    LET keys == [i \in 1..5 |-> pubkeys(i)]
    IN  {T_CastE(E_CheckSig(keys[1])),
         T_CastE(E_CheckMultiSig(3, keys)),
         T_CascadeOr(E_CheckMultiSig(2, SubSeq(keys, 1, 2)),
                     T_And(V_CheckMultiSig(2, SubSeq(keys, 4, 5)), T_Time(10000))),
         T_Time(921),
         T_HashEqual(Rep(32, 93)),
         T_SwitchOrV(V_CheckSig(keys[1]), V_And(V_CheckSig(keys[2]), V_CheckSig(keys[3]))),
         T_SwitchOr(T_Time(9), T_Time(7)),
         T_And(V_SwitchOrT(T_Time(9), T_Time(7)), T_Time(7)),
         T_ParallelOr(E_CheckMultiSig(0, <<>>), W_CheckSig(keys[1]))}

\* the scripts of tests::deserialize
BadScripts ==
    {<<>>, <<0>>, <<80>>, <<105>>, <<16, 1>>, <<3, 153, 3, 0, 178>>, <<133, 89, 178>>,
     <<76, 1, 105, 178>>, <<0, 0, 175, 1, 1, 178>>, <<0, 0, 175, 0, 0, 174, 133>>,
     <<0, 0, 175, 0, 0, 174, 155>>}

\* the keys of the composed trees: pubkeys(1..NumKeys)
AllPubkeys == [i \in 1..NumKeys |-> pubkeys(i)]

\* E fragments: a signature, k of the keys, and k of a signature and
\* NumKeys wrapped signatures
EFragments ==
    {E_CheckSig(pubkeys(i)) : i \in Keys}
    \cup {E_CheckMultiSig(k, AllPubkeys) : k \in 0..NumKeys}
    \cup {E_Threshold(k, E_CheckSig(pubkeys(1)), [i \in 1..NumKeys |-> W_CheckSig(pubkeys(i + 1))])
          : k \in 1..(NumKeys + 1)}

VFragments ==
    {V_CheckSig(pubkeys(1)), V_CheckMultiSig(1, AllPubkeys),
     V_And(V_CheckSig(pubkeys(1)), V_CheckSig(pubkeys(2)))}
    \cup {V_SwitchOrT(T_Time(LockValue(1)), T_Time(n)) : n \in Locks}

\* T fragments without T sub-fragments
TLeaves ==
    {T_Time(n) : n \in Locks} \cup {T_HashEqual(h) : h \in Hashes}
    \cup {T_CastE(e) : e \in EFragments}

\* the trees given to serialize and satisfy: the trees of the tests, the
\* leaves, and every conjunction and disjunction of two fragments
Trees ==
    TestTrees \cup TLeaves
    \cup {T_ParallelOr(e, W_CheckSig(pubkeys(i))) : e \in EFragments, i \in Keys}
    \cup {T_CascadeOr(e, t) : e \in EFragments, t \in TLeaves}
    \cup {T_SwitchOr(a, b) : a \in TLeaves, b \in TLeaves}
    \cup {T_SwitchOrV(a, b) : a \in VFragments, b \in VFragments}
    \cup {T_And(v, t) : v \in VFragments, t \in TLeaves}

\* byte strings put into a script: a non-minimal push (OP_PUSHDATA1 of one
\* byte), a non-minimal number (921 in three bytes), a one-byte push of 1,
\* OP_OR, OP_SWAP, OP_VERIFY, OP_0, a push of negative zero; then further
\* OP_PUSHDATA1 pushes of few bytes
ScriptProbe(i) ==
    CASE i = 1 -> <<OP_PUSHDATA1, 1, 105>> [] i = 2 -> <<3, 153, 3, 0>> [] i = 3 -> <<1, 1>>
      [] i = 4 -> <<OP_OR>> [] i = 5 -> <<OP_SWAP>> [] i = 6 -> <<OP_VERIFY>>
      [] i = 7 -> <<OP_PUSHBYTES_0>> [] i = 8 -> <<1, 128>>
      [] OTHER -> <<OP_PUSHDATA1, i>> \o Rep(i, 0)

\* pushes that run past the end of the script
TruncatedPushes == {<<16, 1>>, <<OP_PUSHDATA1>>, <<OP_PUSHDATA1, 80, 1>>, <<OP_PUSHDATA2, 5>>}

RECURSIVE Boundaries(_, _)
\* the offsets of a well-formed script at which an instruction ends, from i on
Boundaries(script, i) ==
    IF i >= Len(script) THEN {Len(script)}
    ELSE {i} \cup Boundaries(script, i + LexOne(SubSeq(script, i + 1, Len(script))).len)

\* scripts that are one fragment of a type other than T
LoneFragments ==
    {ast_serialize(v) : v \in VFragments} \cup {ast_serialize(W_CheckSig(pubkeys(1)))}

\* the scripts given to parse: the serialized trees, the scripts of
\* tests::deserialize, lone V and W fragments, and the scripts of the tests'
\* trees with a probe put between two instructions, with a truncated push at
\* the end, and with two probes, one in front and one at the end
Scripts ==
    LET tests == {serialize(t) : t \in TestTrees}
    IN  {serialize(t) : t \in Trees} \cup BadScripts \cup LoneFragments
        \cup UNION {{Inserted(s, i, ScriptProbe(c)) : i \in Boundaries(s, 0), c \in 1..NumScriptProbes}
                    : s \in tests}
        \cup {s \o p : s \in tests, p \in TruncatedPushes}
        \cup {ScriptProbe(c) \o s \o ScriptProbe(1) : s \in tests, c \in 2..4}
        \cup {<<OP_VERIFY, OP_SWAP>> \o s : s \in tests}

(***************************************************************************)
(* The satisfier of the legacy module (descript::satisfy): the witness     *)
(* stack of a tree under the caller's key and hash lookups and the age.    *)
(***************************************************************************)
\* the keys the lookups are asked about: those of the composed trees and
\* the last wrapped key of the thresholds
OracleKeys == 1..(NumKeys + 1)

\* a signature with its sighash byte as keyfn returns it for key i: DER of
\* derlen bytes, then SIGHASH_ALL
legacy_sig(i, derlen) == <<48, derlen - 2>> \o Rep(derlen - 2, i) \o <<1>>

\* the 32 bytes hashfn returns for a hash it knows
preimage(h) == Rep(32, (h[1] + 1) % 256)

\* The lookups given to Descript::satisfy: keyfn gives the DER length of the
\* signature of each key, 0 for None, 71 or 72 for the first key and 72 for
\* the others; hashfn is the set of hashes with a known preimage; a missing
\* closure is the one that returns None always.
Oracles ==
    [keyfn : {f \in [OracleKeys -> {0, 71, 72}] : \A i \in OracleKeys : i > 1 => f[i] # 71},
     hashfn : {{}, Hashes}, age : {0, 16, 1000}]

\* a satisfaction: Some(stack) or None
Sat(stack) == [ok |-> TRUE, stack |-> stack]
Unsat == [ok |-> FALSE, stack |-> <<>>]

\* serialized size of a stack: each element with its length prefix
RECURSIVE stack_size(_)
stack_size(st) ==
    IF st = <<>> THEN 0
    ELSE varint_len(Len(Head(st))) + Len(Head(st)) + stack_size(Tail(st))

\* the choice between the two sides of a disjunction made on the number of
\* stack elements instead of their serialized size
choose_FewerElements(l, r) ==
    IF l.ok /\ r.ok THEN (IF Len(l.stack) <= Len(r.stack) THEN l ELSE r)
    ELSE IF l.ok THEN l
    ELSE IF r.ok THEN r
    ELSE Unsat

\* the choice between the two sides of a disjunction: the smaller stack, the
\* left one on a tie, the satisfiable one when only one is, None when none is
choose(l, r) ==
    IF l.ok /\ r.ok THEN (IF stack_size(l.stack) <= stack_size(r.stack) THEN l ELSE r)
    ELSE IF l.ok THEN l
    ELSE IF r.ok THEN r
    ELSE Unsat

\* the key a fragment names, as the lookups know it
KeyIndex(pk) == pk[Len(pk)]

\* keyfn(pk): the DER length of the signature of the key, 0 for None and for
\* a key the caller knows nothing about
keyfn(o, pk) == IF KeyIndex(pk) \in DOMAIN o.keyfn THEN o.keyfn[KeyIndex(pk)] ELSE 0

\* the sub-stacks of a sequence of fragments put together: the fragment that
\* runs first has its part on top, which is last in the stack
Flatten(parts) == Concat([i \in 1..Len(parts) |-> parts[Len(parts) + 1 - i]])

RECURSIVE ast_dissatisfy(_)
\* the stack that makes an E or W fragment leave 0: an empty signature, an
\* empty element for the dummy and each signature of a multisig, and the
\* dissatisfaction of every sub-fragment of a threshold
ast_dissatisfy(a) ==
    CASE a.node = "CheckSig" -> <<<<>>>>
      [] a.node = "CheckMultiSig" -> [i \in 1..(a.k + 1) |-> <<>>]
      [] a.node = "Threshold" -> Flatten([i \in 1..Len(a.sub) |-> ast_dissatisfy(a.sub[i])])

\* the total size of the parts when the fragments of S are satisfied and the
\* others dissatisfied
RECURSIVE parts_size(_, _, _, _)
parts_size(sats, dis, S, i) ==
    IF i > Len(sats) THEN 0
    ELSE stack_size(IF i \in S THEN sats[i].stack ELSE dis[i]) + parts_size(sats, dis, S, i + 1)

\* Threshold that satisfies every sub-fragment it can, also beyond k
satisfy_threshold_AllSatisfiable(k, sats, dis) ==
    LET able == {i \in 1..Len(sats) : sats[i].ok}
    IN  IF Cardinality(able) < k THEN Unsat
        ELSE Sat(Flatten([i \in 1..Len(sats) |-> IF i \in able THEN sats[i].stack ELSE dis[i]]))

\* Threshold: k of the satisfiable sub-fragments are satisfied, the cheapest
\* ones, and all the others dissatisfied; None with fewer than k satisfiable
satisfy_threshold(k, sats, dis) ==
    LET able == {i \in 1..Len(sats) : sats[i].ok}
        picks == {S \in SUBSET able : Cardinality(S) = k}
        best == CHOOSE S \in picks :
                    \A S2 \in picks : parts_size(sats, dis, S, 1) <= parts_size(sats, dis, S2, 1)
    IN  IF Cardinality(able) < k THEN Unsat
        ELSE Sat(Flatten([i \in 1..Len(sats) |-> IF i \in best THEN sats[i].stack ELSE dis[i]]))

\* CheckMultiSig: the dummy element, then the first k signatures there are,
\* in the order of their keys
satisfy_checkmultisig(k, pks, o) ==
    LET Signed(j) == keyfn(o, pks[j]) # 0
        able == {j \in 1..Len(pks) : Signed(j)}
        Rank(j) == Cardinality({j2 \in able : j2 <= j})
        used == {j \in able : Rank(j) <= k}
        NthUsed(r) == CHOOSE j \in used : Rank(j) = r
    IN  IF Cardinality(able) < k THEN Unsat
        ELSE Sat(<<<<>>>> \o [r \in 1..k |->
                     legacy_sig(KeyIndex(pks[NthUsed(r)]), keyfn(o, pks[NthUsed(r)]))])

RECURSIVE ast_satisfy(_, _)
\* AstElem::satisfy: the rule of each variant
ast_satisfy(a, o) ==
    LET s(i) == ast_satisfy(a.sub[i], o)
        d(i) == ast_dissatisfy(a.sub[i])
    IN  CASE a.node = "CheckSig" ->
                IF keyfn(o, a.pk) # 0
                THEN Sat(<<legacy_sig(KeyIndex(a.pk), keyfn(o, a.pk))>>)
                ELSE Unsat
          [] a.node = "CheckMultiSig" -> satisfy_checkmultisig(a.k, a.pks, o)
          [] a.node = "Threshold" ->
                satisfy_threshold(a.k, [i \in 1..Len(a.sub) |-> s(i)],
                                  [i \in 1..Len(a.sub) |-> d(i)])
          [] a.node = "Time" -> IF o.age >= a.n THEN Sat(<<>>) ELSE Unsat
          [] a.node = "HashEqual" ->
                IF a.h \in o.hashfn THEN Sat(<<preimage(a.h)>>) ELSE Unsat
          [] a.node = "And" ->
                IF s(1).ok /\ s(2).ok THEN Sat(s(2).stack \o s(1).stack) ELSE Unsat
          [] a.node = "ParallelOr" ->
                choose(IF s(1).ok THEN Sat(d(2) \o s(1).stack) ELSE Unsat,
                       IF s(2).ok THEN Sat(s(2).stack \o d(1)) ELSE Unsat)
          [] a.node = "CascadeOr" ->
                choose(s(1), IF s(2).ok THEN Sat(s(2).stack \o d(1)) ELSE Unsat)
          [] a.node \in {"SwitchOr", "SwitchOrT", "SwitchOrV"} ->
                choose(IF s(1).ok THEN Sat(s(1).stack \o <<<<1>>>>) ELSE Unsat,
                       IF s(2).ok THEN Sat(s(2).stack \o <<<<>>>>) ELSE Unsat)
          [] a.node = "CastE" -> s(1)

\* the results of Descript::satisfy
SatisfyOk(stack) == [tag |-> "Ok", stack |-> stack]
SatisfyErr == [tag |-> "CouldNotSatisfy", stack |-> <<>>]

\* Descript::satisfy: the satisfaction of the tree, or Error::CouldNotSatisfy
descript_satisfy(d, o) ==
    IF ast_satisfy(d, o).ok THEN SatisfyOk(ast_satisfy(d, o).stack) ELSE SatisfyErr

(***************************************************************************)
(* The state.  A behaviour is one caller: a descriptor, a satisfier,        *)
(* a TxIn it passes to satisfy, a string it passes to from_str, and the     *)
(* last call with its result.  The descriptor, the satisfier and the       *)
(* string are the caller's inputs and do not change.                       *)
(***************************************************************************)
NoSatisfier == [has |-> {}, sig |-> NoSig, age |-> 0]

Call(op, res) == [op |-> op, res |-> res]

\* the TxIn of the tests before the first call
FreshTxIn == [previous_output |-> 0, script_sig |-> <<>>, sequence |-> 100, witness |-> <<>>]

\* A TxIn is either fresh or was written by an earlier satisfy call: here the
\* call of the tests' ShWpkh descriptor, which fills script_sig and witness.
PriorTxIns ==
    {FreshTxIn,
     satisfy(Descriptor("ShWpkh", 1, NoMs), FreshTxIn,
             [has |-> {1}, sig |-> [derlen |-> 70, hashty |-> 1], age |-> 0]).txin}

Init ==
    /\ desc \in Descriptors
    /\ satisfier \in Satisfiers
    /\ str = <<>>
    /\ txin \in PriorTxIns
    /\ last = Call("init", 0)
    /\ descript = NoAst
    /\ program = <<>>

Satisfy ==
    LET r == satisfy(desc, txin, satisfier)
    IN  /\ txin' = r.txin
        /\ last' = Call("satisfy", r.ret)
        /\ UNCHANGED <<desc, satisfier, str, descript, program>>

ScriptPubkey ==
    /\ last' = Call("script_pubkey", script_pubkey(desc))
    /\ UNCHANGED <<desc, satisfier, str, txin, descript, program>>

UnsignedScriptSig ==
    /\ last' = Call("unsigned_script_sig", unsigned_script_sig(desc))
    /\ UNCHANGED <<desc, satisfier, str, txin, descript, program>>

WitnessScript ==
    /\ last' = Call("witness_script", witness_script(desc))
    /\ UNCHANGED <<desc, satisfier, str, txin, descript, program>>

AddressOf ==
    \E network \in Networks :
        /\ last' = Call("address", [network |-> network, addr |-> address(desc, network)])
        /\ UNCHANGED <<desc, satisfier, str, txin, descript, program>>

MaxSatisfactionWeight ==
    /\ last' = Call("max_satisfaction_weight", max_satisfaction_weight(desc))
    /\ UNCHANGED <<desc, satisfier, str, txin, descript, program>>

Next ==
    \/ Satisfy
    \/ ScriptPubkey
    \/ UnsignedScriptSig
    \/ WitnessScript
    \/ AddressOf
    \/ MaxSatisfactionWeight

Spec == Init /\ [][Next]_vars

\* A caller of from_str: the input is a string, there is no descriptor yet.
InitParse ==
    /\ desc = NoDescriptor
    /\ satisfier = NoSatisfier
    /\ str \in Strings
    /\ txin = FreshTxIn
    /\ last = Call("init", 0)
    /\ descript = NoAst
    /\ program = <<>>

FromStr ==
    /\ last' = Call("from_str", from_str(str))
    /\ UNCHANGED <<desc, satisfier, str, txin, descript, program>>

\* the caller prints the descriptor from_str returned and keeps both
Display ==
    /\ last.op = "from_str"
    /\ last.res.tag = "Ok"
    /\ desc = NoDescriptor
    /\ desc' = last.res.d
    /\ str' = to_string(last.res.d)
    /\ last' = Call("to_string", to_string(last.res.d))
    /\ UNCHANGED <<satisfier, txin, descript, program>>

NextParse ==
    \/ FromStr
    \/ Display

SpecParse == InitParse /\ [][NextParse]_vars

\* A caller of the script AST: it has a script to parse, or a tree it built.
InitCodec ==
    /\ desc = NoDescriptor
    /\ satisfier = NoSatisfier
    /\ str = <<>>
    /\ txin = FreshTxIn
    /\ last = Call("init", 0)
    /\ \/ descript = NoAst /\ program \in Scripts
       \/ descript \in Trees /\ program = <<>>

\* Descript::parse of the script the caller holds
Parse ==
    /\ descript = NoAst \/ last.op = "serialize"
    /\ last' = Call("parse", parse(program))
    /\ UNCHANGED <<desc, satisfier, str, txin, descript, program>>

\* Descript::serialize of the tree the caller built
Serialize ==
    /\ descript # NoAst
    /\ program' = serialize(descript)
    /\ last' = Call("serialize", serialize(descript))
    /\ UNCHANGED <<desc, satisfier, str, txin, descript>>

\* Descript::serialize of the tree parse returned, which the caller keeps
SerializeParsed ==
    /\ descript = NoAst
    /\ last.op = "parse"
    /\ last.res.tag = "Ok"
    /\ descript' = last.res.tree
    /\ program' = serialize(last.res.tree)
    /\ last' = Call("serialize", serialize(last.res.tree))
    /\ UNCHANGED <<desc, satisfier, str, txin>>

NextCodec ==
    \/ Parse
    \/ Serialize
    \/ SerializeParsed

SpecCodec == InitCodec /\ [][NextCodec]_vars

(***************************************************************************)
(* A caller that signs one TxIn again and again with one satisfier: each   *)
(* call takes any descriptor, and the TxIn is what the call before left.   *)
(***************************************************************************)
\* the satisfiers of these calls: no key, the first key or every key, one
\* signature, and an age below or above the timelocks
TxInSatisfiers ==
    {sat \in Satisfiers : /\ sat.sig = [derlen |-> 71, hashty |-> 1]
                          /\ sat.has \in {{}, {1}, Keys}
                          /\ sat.age \in {0, 1000}}

InitTxIn ==
    /\ desc = NoDescriptor
    /\ satisfier \in TxInSatisfiers
    /\ str = <<>>
    /\ txin = FreshTxIn
    /\ last = Call("init", 0)
    /\ descript = NoAst
    /\ program = <<>>

\* Descriptor::satisfy(&mut txin, satisfier) of descriptor d; `before` keeps the
\* TxIn the call was given
SatisfyTxIn ==
    \E d \in Descriptors :
        LET r == satisfy(d, txin, satisfier)
        IN  /\ desc' = d
            /\ txin' = r.txin
            /\ last' = [op |-> "satisfy", res |-> r.ret, before |-> txin]
            /\ UNCHANGED <<satisfier, str, descript, program>>

NextTxIn == SatisfyTxIn

SpecTxIn == InitTxIn /\ [][NextTxIn]_vars

(***************************************************************************)
(* witness_to_scriptsig on its own: a witness stack, and the script the    *)
(* Bare and Sh arms make of it.                                            *)
(***************************************************************************)
\* Stack elements: the empty one, minimal numbers small and large, positive
\* and negative, encodings that are not minimal, a string of 5 bytes, a
\* signature, and a script too long for a one-byte push.
StackElements ==
    {<<>>, <<1>>, <<16>>, <<17>>, <<127>>, <<129>>, <<130>>, <<128, 0>>, <<0, 1>>,
     <<255, 255, 255, 127>>, <<255, 255, 255, 255>>,
     <<0>>, <<128>>, <<1, 0>>, <<1, 128>>,
     <<1, 2, 3, 4, 5>>, sig_vec([derlen |-> 71, hashty |-> 1]), Rep(80, 9)}

RECURSIVE StacksOf(_)
\* the stacks of n elements
StacksOf(n) ==
    IF n = 0 THEN {<<>>} ELSE {Append(w, e) : w \in StacksOf(n - 1), e \in StackElements}

Stacks == UNION {StacksOf(n) : n \in 0..MaxStackLen}

InitScriptSig ==
    /\ desc = NoDescriptor
    /\ satisfier = NoSatisfier
    /\ str = <<>>
    /\ txin = FreshTxIn
    /\ last \in {Call("witness", w) : w \in Stacks}
    /\ descript = NoAst
    /\ program = <<>>

\* witness_to_scriptsig(&witness)
WitnessToScriptSig ==
    /\ last.op = "witness"
    /\ program' = witness_to_scriptsig(last.res)
    /\ last' = Call("witness_to_scriptsig", last.res)
    /\ UNCHANGED <<desc, satisfier, str, txin, descript>>

NextScriptSig == WitnessToScriptSig

SpecScriptSig == InitScriptSig /\ [][NextScriptSig]_vars

(***************************************************************************)
(* The caller of translate_pk: a descriptor and one translation of it.     *)
(***************************************************************************)
InitTranslate ==
    /\ desc \in Descriptors
    /\ satisfier = NoSatisfier
    /\ str = <<>>
    /\ txin = FreshTxIn
    /\ last = Call("init", 0)
    /\ descript = NoAst
    /\ program = <<>>

\* Descriptor::translate_pk(translatefpk, translatefpkh); `f` keeps the function
TranslatePk ==
    /\ last.op = "init"
    /\ \E f \in Translations :
          last' = [op |-> "translate_pk", res |-> translate_pk(desc, f), f |-> f]
    /\ UNCHANGED <<desc, satisfier, str, txin, descript, program>>

NextTranslate == TranslatePk

SpecTranslate == InitTranslate /\ [][NextTranslate]_vars

(***************************************************************************)
(* The caller of Descript::satisfy: a tree, built directly or by parse,    *)
(* and one call with the caller's lookups.                                 *)
(***************************************************************************)
InitDescript ==
    /\ desc = NoDescriptor
    /\ satisfier \in Oracles
    /\ str = <<>>
    /\ txin = FreshTxIn
    /\ last = Call("init", 0)
    /\ descript \in Trees
    /\ program = <<>>

\* Descript::satisfy(keyfn, hashfn, age)
DescriptSatisfy ==
    /\ last.op = "init"
    /\ last' = Call("satisfy", descript_satisfy(descript, satisfier))
    /\ UNCHANGED <<desc, satisfier, str, txin, descript, program>>

NextDescript == DescriptSatisfy

SpecDescript == InitDescript /\ [][NextDescript]_vars

(***************************************************************************)
(* Reading scripts back: what the claims compare the code's output with.   *)
(***************************************************************************)
Failed == <<"not pushes">>

RECURSIVE PushedData(_)
\* The byte strings a script of pushes leaves on the stack, bottom first, as
\* the Script interpreter reads it: OP_0 is the empty string, OP_1NEGATE is
\* 0x81, OP_1..OP_16 are the one-byte numbers, 0x01..0x4b and OP_PUSHDATA1/2
\* take the pushed bytes from the script.  Failed for anything else.
PushedData(script) ==
    IF script = <<>> THEN <<>>
    ELSE LET op == script[1]
             n == Len(script)
             hdr == IF op <= 75 THEN 1 ELSE IF op = OP_PUSHDATA1 THEN 2 ELSE 3
             size == IF op <= 75 THEN op
                     ELSE IF op = OP_PUSHDATA1 /\ n >= 2 THEN script[2]
                     ELSE IF op = OP_PUSHDATA2 /\ n >= 3 THEN script[2] + 256 * script[3]
                     ELSE n
             rest == IF op <= OP_PUSHDATA2
                     THEN PushedData(SubSeq(script, hdr + size + 1, n))
                     ELSE PushedData(Tail(script))
         IN  IF op <= OP_PUSHDATA2
             THEN IF hdr + size > n \/ rest = Failed THEN Failed
                  ELSE <<SubSeq(script, hdr + 1, hdr + size)>> \o rest
             ELSE IF rest = Failed THEN Failed
             ELSE IF op = OP_PUSHNUM_NEG1 THEN <<(<<129>>)>> \o rest
             ELSE IF op >= OP_PUSHNUM_1 /\ op <= OP_PUSHNUM_1 + 15
                  THEN <<(<<op - OP_PUSHNUM_1 + 1>>)>> \o rest
             ELSE Failed

\* the P2SH script of a redeem script, byte by byte
P2SHOf(script) == <<OP_HASH160, 20>> \o hash160(script) \o <<OP_EQUAL>>

\* the P2WPKH script of a key, byte by byte
P2WPKHOf(pk) == <<OP_PUSHBYTES_0, 20>> \o hash160(to_bytes(pk))

\* the P2WSH script of a witness script, byte by byte
P2WSHOf(script) == <<OP_PUSHBYTES_0, 32>> \o sha256(script)

\* the P2PKH script of a key, byte by byte
P2PKHOf(pk) ==
    <<OP_DUP, OP_HASH160, 20>> \o hash160(to_bytes(pk)) \o <<OP_EQUALVERIFY, OP_CHECKSIG>>

\* the script_pubkey column of the envelope table
EnvelopeTable(e) ==
    CASE e.tag = "Bare" -> encode(e.ms)
      [] e.tag = "Pk" -> <<Len(to_bytes(e.pk))>> \o to_bytes(e.pk) \o <<OP_CHECKSIG>>
      [] e.tag = "Pkh" -> P2PKHOf(e.pk)
      [] e.tag = "Wpkh" -> P2WPKHOf(e.pk)
      [] e.tag = "Sh" -> P2SHOf(encode(e.ms))
      [] e.tag = "Wsh" -> P2WSHOf(encode(e.ms))
      [] e.tag = "ShWpkh" -> P2SHOf(P2WPKHOf(e.pk))
      [] e.tag = "ShWsh" -> P2SHOf(P2WSHOf(encode(e.ms)))

Satisfied == last.op = "satisfy" /\ last.res = Ok

\* the signature bytes the satisfier returns for the descriptor's key
KeySig == sig_vec(lookup_sig(satisfier, desc.pk))

\* the witness stack of the descriptor's miniscript under the satisfier
MsStack == ms_satisfy(desc.ms, satisfier).stack

(***************************************************************************)
(* C1: script_pubkey(d) is the script the envelope table gives for d, for  *)
(* each of the eight envelopes.                                            *)
(***************************************************************************)
C1_ScriptPubkeyTable ==
    last.op = "script_pubkey" => last.res = EnvelopeTable(desc)

C1_Witness ==
    /\ last.op = "script_pubkey"
    /\ desc.tag = "ShWsh"
    /\ desc.ms.node = "multi"
    /\ Len(last.res) = 23

(***************************************************************************)
(* C2: a successful satisfy on a legacy envelope (Bare, Pk, Pkh, Sh)       *)
(* leaves the witness empty and makes script_sig a script of pushes whose  *)
(* pushed data is, in order: the miniscript's stack (Bare); the signature  *)
(* with its sighash byte (Pk); that signature and the key (Pkh); the       *)
(* miniscript's stack and then the redeem script ms.encode() (Sh).         *)
(***************************************************************************)
C2_LegacyLayout ==
    (Satisfied /\ desc.tag \in {"Bare", "Pk", "Pkh", "Sh"}) =>
        /\ txin.witness = <<>>
        /\ PushedData(txin.script_sig) =
               CASE desc.tag = "Bare" -> MsStack
                 [] desc.tag = "Pk" -> <<KeySig>>
                 [] desc.tag = "Pkh" -> <<KeySig, to_bytes(desc.pk)>>
                 [] desc.tag = "Sh" -> MsStack \o <<encode(desc.ms)>>

C2_Witness ==
    /\ Satisfied
    /\ desc.tag = "Sh"
    /\ desc.ms.node = "multi"
    /\ Len(PushedData(txin.script_sig)) = 3

(***************************************************************************)
(* C3: a successful satisfy on a segwit envelope puts the satisfaction in  *)
(* the witness: Wpkh and Wsh leave script_sig empty, ShWpkh and ShWsh make *)
(* it the single push of the inner segwit script_pubkey; the witness is    *)
(* [signature, key] for the key envelopes and the miniscript's stack       *)
(* followed by ms.encode() for the script envelopes.                       *)
(***************************************************************************)
C3_SegwitLayout ==
    (Satisfied /\ desc.tag \in {"Wpkh", "Wsh", "ShWpkh", "ShWsh"}) =>
        /\ desc.tag \in {"Wpkh", "Wsh"} => txin.script_sig = <<>>
        /\ desc.tag = "ShWpkh" =>
               PushedData(txin.script_sig) = <<EnvelopeTable(Descriptor("Wpkh", desc.pk, NoMs))>>
        /\ desc.tag = "ShWsh" =>
               PushedData(txin.script_sig) = <<EnvelopeTable(Descriptor("Wsh", 0, desc.ms))>>
        /\ desc.tag \in {"Wpkh", "ShWpkh"} => txin.witness = <<KeySig, to_bytes(desc.pk)>>
        /\ desc.tag \in {"Wsh", "ShWsh"} => txin.witness = MsStack \o <<encode(desc.ms)>>

C3_Witness ==
    /\ Satisfied
    /\ desc.tag = "ShWsh"
    /\ Len(txin.witness) = 3
    /\ Len(txin.script_sig) = 35

(***************************************************************************)
(* C4: satisfy returns MissingSig(pk) exactly when the envelope is Pk, Pkh,*)
(* Wpkh or ShWpkh and the satisfier has no signature for pk; on Bare, Sh,  *)
(* Wsh and ShWsh the only error is CouldNotSatisfy, returned exactly when  *)
(* the miniscript's satisfy yields no stack.                               *)
(***************************************************************************)
C4_MissingSigOnlyForKeys ==
    last.op = "satisfy" =>
        /\ last.res.tag = "MissingSig" <=>
               (desc.tag \in KeyTags /\ lookup_sig(satisfier, desc.pk) = NoSig)
        /\ last.res.tag = "MissingSig" => last.res.pk = to_bytes(desc.pk)
        /\ desc.tag \in MsTags =>
               /\ last.res \in {Ok, CouldNotSatisfy}
               /\ last.res = CouldNotSatisfy <=> ~ms_satisfy(desc.ms, satisfier).some

C4_Witness ==
    /\ last.op = "satisfy"
    /\ desc.tag = "ShWpkh"
    /\ desc.pk \notin satisfier.has
    /\ last.res = MissingSig(desc.pk)

(***************************************************************************)
(* The weight of a satisfaction as it is serialized in a transaction.      *)
(***************************************************************************)
RECURSIVE ElementsSize(_, _)
\* length prefix and bytes of the witness elements w[i..]
ElementsSize(w, i) ==
    IF i > Len(w) THEN 0
    ELSE varint_len(Len(w[i])) + Len(w[i]) + ElementsSize(w, i + 1)

\* serialized size of a witness: the element count, then each element
WitnessSize(w) == varint_len(Len(w)) + ElementsSize(w, 1)

\* four weight units per script_sig byte (length prefix included), one per witness byte
SatisfactionWeight(tx) ==
    4 * (varint_len(Len(tx.script_sig)) + Len(tx.script_sig)) + WitnessSize(tx.witness)

\* every signature of the satisfier is at most 73 bytes with its push opcode
\* and its sighash byte
SigsWithin73 == 1 + Len(sig_vec(satisfier.sig)) <= 73

(***************************************************************************)
(* C5: max_satisfaction_weight is an upper bound: when satisfy succeeds    *)
(* with signatures of at most 73 bytes (push opcode and sighash byte       *)
(* included), the weight of script_sig and witness, 4 * (varint + bytes)   *)
(* of script_sig plus the serialized witness with its element count, is at *)
(* most max_satisfaction_weight(d).                                        *)
(***************************************************************************)
C5_WeightIsUpperBound ==
    (Satisfied /\ SigsWithin73) =>
        SatisfactionWeight(txin) <= max_satisfaction_weight(desc)

(***************************************************************************)
(* C6: unsigned_script_sig(d) is empty for Bare, Pk, Pkh, Sh, Wpkh and     *)
(* Wsh; for ShWpkh and ShWsh it is exactly one data push, of the           *)
(* script_pubkey of Wpkh(pk) and of Wsh(ms).                               *)
(***************************************************************************)
C6_UnsignedScriptSig ==
    last.op = "unsigned_script_sig" =>
        LET inner == IF desc.tag = "ShWpkh"
                     THEN EnvelopeTable(Descriptor("Wpkh", desc.pk, NoMs))
                     ELSE EnvelopeTable(Descriptor("Wsh", 0, desc.ms))
        IN  IF desc.tag \in {"ShWpkh", "ShWsh"}
            THEN last.res = <<Len(inner)>> \o inner /\ Len(inner) <= 75
            ELSE last.res = <<>>

C6_Witness ==
    /\ last.op = "unsigned_script_sig"
    /\ desc.tag = "ShWsh"
    /\ PushedData(last.res) = <<script_pubkey(Descriptor("Wsh", 0, desc.ms))>>

(***************************************************************************)
(* C7: after a successful satisfy on a segwit envelope (Wpkh, Wsh, ShWpkh, *)
(* ShWsh) script_sig equals unsigned_script_sig(d): signing does not       *)
(* change the scriptSig.                                                   *)
(***************************************************************************)
C7_ScriptSigUnchangedBySigning ==
    (Satisfied /\ desc.tag \in {"Wpkh", "Wsh", "ShWpkh", "ShWsh"}) =>
        txin.script_sig = unsigned_script_sig(desc)

C7_Witness ==
    /\ Satisfied
    /\ desc.tag = "ShWpkh"
    /\ desc.pk = 2
    /\ txin.script_sig # <<>>
    /\ Len(txin.witness) = 2

(***************************************************************************)
(* C8: witness_script(d) equals script_pubkey(d) for Bare, Pk and Pkh, the *)
(* script_pubkey of Wpkh(pk) for ShWpkh(pk), and ms.encode() for Sh, Wsh   *)
(* and ShWsh.                                                              *)
(***************************************************************************)
C8_WitnessScript ==
    last.op = "witness_script" =>
        /\ desc.tag \in {"Bare", "Pk", "Pkh"} => last.res = script_pubkey(desc)
        /\ desc.tag = "ShWpkh" => last.res = script_pubkey(Descriptor("Wpkh", desc.pk, NoMs))
        /\ desc.tag \in {"Sh", "Wsh", "ShWsh"} => last.res = encode(desc.ms)

C8_Witness ==
    /\ last.op = "witness_script"
    /\ desc.tag = "ShWpkh"
    /\ Len(last.res) = 22

(***************************************************************************)
(* C9, as stated: witness_script(Wpkh(pk)) is the P2PKH script of pk,      *)
(* OP_DUP OP_HASH160 <h160(pk)> OP_EQUALVERIFY OP_CHECKSIG.                *)
(***************************************************************************)
C9_WpkhWitnessScriptIsP2PKH ==
    (last.op = "witness_script" /\ desc.tag = "Wpkh") => last.res = P2PKHOf(desc.pk)

(***************************************************************************)
(* C9, amended: witness_script(Wpkh(pk)) is the script_pubkey of Wpkh(pk), *)
(* OP_0 <h160(pk)>, for every key pk.                                      *)
(***************************************************************************)
C9_WpkhWitnessScriptIsScriptPubkey ==
    (last.op = "witness_script" /\ desc.tag = "Wpkh") => last.res = P2WPKHOf(desc.pk)

C9_Witness ==
    /\ last.op = "witness_script"
    /\ desc.tag = "Wpkh"
    /\ Len(last.res) = 22

(***************************************************************************)
(* C10, as stated: from_str rejects with Unprintable(byte) every string    *)
(* that contains a byte outside [0x20, 0x7F], the control bytes 0x14..0x1F *)
(* included, the reported byte being such a byte.                          *)
(***************************************************************************)
C10_UnprintableOutside20To7F ==
    (last.op = "from_str" /\ \E i \in 1..Len(str) : str[i] < 32 \/ str[i] > 127) =>
        /\ last.res.tag = "Unprintable"
        /\ last.res.byte < 32 \/ last.res.byte > 127

(***************************************************************************)
(* C11: from_tree dispatches on (name, number of arguments).               *)
(***************************************************************************)
\* the tree of the string given to from_str
TopOf(s) == tree_from_str(s).tree

\* <<name, number of arguments>> of a tree
Shape(t) == <<t.name, Len(t.args)>>

\* the envelope the claim's table assigns to a tree
TagOfShape(top) ==
    LET inner == IF Len(top.args) = 1 THEN Shape(top.args[1]) ELSE <<<<>>, 0>>
    IN  CASE Shape(top) = <<S_pk, 1>> -> "Pk"
          [] Shape(top) = <<S_pkh, 1>> -> "Pkh"
          [] Shape(top) = <<S_wpkh, 1>> -> "Wpkh"
          [] Shape(top) = <<S_sh, 1>> /\ inner = <<S_wsh, 1>> -> "ShWsh"
          [] Shape(top) = <<S_sh, 1>> /\ inner = <<S_wpkh, 1>> -> "ShWpkh"
          [] Shape(top) = <<S_sh, 1>> /\ inner \notin {<<S_wsh, 1>>, <<S_wpkh, 1>>} -> "Sh"
          [] Shape(top) = <<S_wsh, 1>> -> "Wsh"
          [] OTHER -> "Bare"

\* the subtree that holds the key or the miniscript of the envelope
BodyOfShape(top) ==
    CASE TagOfShape(top) \in {"Pk", "Pkh", "Wpkh", "Sh", "Wsh"} -> top.args[1]
      [] TagOfShape(top) \in {"ShWsh", "ShWpkh"} -> top.args[1].args[1]
      [] OTHER -> top

\* from_str got as far as from_tree: every byte passed, the string is a tree
Dispatched ==
    last.op = "from_str" /\ first_unprintable(str, 1) = -1 /\ tree_from_str(str).ok

\* C11: the descriptor from_tree returns has the envelope the (name, arity)
\* of the tree (and of the argument of "sh") selects, with the key or the
\* miniscript of the argument; it is an error exactly when that argument is
\* no key or no miniscript.
C11_FromTreeDispatch ==
    Dispatched =>
        LET top == TopOf(str)
            tag == TagOfShape(top)
            body == BodyOfShape(top)
            key == key_from_str(body.name)
            ms == ms_from_tree(body)
        IN  IF tag \in KeyTags
            THEN IF body.args = <<>> /\ key.ok
                 THEN last.res = FromOk(Descriptor(tag, key.k, NoMs))
                 ELSE last.res.tag # "Ok"
            ELSE IF ms.tag = "Ok"
                 THEN last.res = FromOk(Descriptor(tag, 0, ms.ms))
                 ELSE last.res.tag # "Ok"

\* sh(wsh(X)) was parsed and gave ShWsh
C11_Witness ==
    /\ Dispatched
    /\ Shape(TopOf(str)) = <<S_sh, 1>>
    /\ Shape(TopOf(str).args[1]) = <<S_wsh, 1>>
    /\ last.res.tag = "Ok"
    /\ last.res.d.tag = "ShWsh"

\* a name that is no envelope was parsed as a miniscript and gave Bare
C11_WitnessBare ==
    /\ Dispatched
    /\ TopOf(str).name = S_multi
    /\ last.res.tag = "Ok"
    /\ last.res.d.tag = "Bare"

(***************************************************************************)
(* C12: textual round trip.                                                *)
(***************************************************************************)
\* the printed form of a descriptor that from_str returned was parsed again
Reparsed == desc # NoDescriptor /\ last.op = "from_str"

\* C12: parsing the printed form of a descriptor obtained from from_str
\* succeeds and gives the same descriptor, for every envelope.
C12_TextualRoundTrip == Reparsed => last.res = FromOk(desc)

\* sh(wsh(..)) was printed and parsed back to ShWsh
C12_Witness == Reparsed /\ desc.tag = "ShWsh" /\ last.res.tag = "Ok" /\ last.res.d.tag = "ShWsh"

\* a Bare miniscript and sh(wpkh(..)) were printed and parsed back
C12_WitnessBare == Reparsed /\ desc.tag = "Bare" /\ last.res = FromOk(desc)

C12_WitnessShWpkh == Reparsed /\ desc.tag = "ShWpkh" /\ last.res = FromOk(desc)

(***************************************************************************)
(* C13: address.                                                           *)
(***************************************************************************)
\* C13: address(network) is None exactly for Bare and Pk; for the other six
\* envelopes it is an address of the network asked for whose scriptPubKey
\* is script_pubkey(d), whatever the network.
C13_AddressMatchesScriptPubkey ==
    last.op = "address" =>
        /\ (last.res.addr = NoAddress) <=> (desc.tag \in {"Bare", "Pk"})
        /\ last.res.addr # NoAddress =>
               /\ last.res.addr.network = last.res.network
               /\ address_script_pubkey(last.res.addr) = script_pubkey(desc)

\* a testnet address of a ShWsh descriptor was computed
C13_Witness ==
    /\ last.op = "address"
    /\ desc.tag = "ShWsh"
    /\ last.res.network = "Testnet"
    /\ last.res.addr.kind = "ScriptHash"

\* no address for a Bare descriptor
C13_WitnessNone == last.op = "address" /\ desc.tag = "Bare" /\ last.res.addr = NoAddress

(***************************************************************************)
(* C20: the timelock opcodes of wsh(older(n)) and wsh(after(n)).           *)
(***************************************************************************)
RECURSIVE Instructions(_)
\* Script::iter(false): the instructions of a script, each the opcode byte
\* and the bytes it pushes; a push that runs past the end is the opcode -1
Instructions(script) ==
    IF script = <<>> THEN <<>>
    ELSE LET op == script[1]
             n == Len(script)
             hdr == IF op <= 75 THEN 1 ELSE IF op = OP_PUSHDATA1 THEN 2
                    ELSE IF op = OP_PUSHDATA2 THEN 3 ELSE IF op = OP_PUSHDATA4 THEN 5 ELSE 1
             size == IF op <= 75 THEN op
                     ELSE IF op = OP_PUSHDATA1 /\ n >= 2 THEN script[2]
                     ELSE IF op = OP_PUSHDATA2 /\ n >= 3 THEN script[2] + 256 * script[3]
                     ELSE IF op \in {OP_PUSHDATA1, OP_PUSHDATA2, OP_PUSHDATA4} THEN n
                     ELSE 0
         IN  IF hdr + size > n THEN <<[op |-> -1, data |-> <<>>]>>
             ELSE <<[op |-> op, data |-> SubSeq(script, hdr + 1, hdr + size)]>>
                  \o Instructions(SubSeq(script, hdr + size + 1, n))

\* the opcode of the last instruction of a script, -1 if it has none
LastOp(script) ==
    LET ins == Instructions(script)
    IN  IF ins = <<>> THEN -1 ELSE ins[Len(ins)].op

\* the opcodes of a script's instructions
OpsOf(script) == {Instructions(script)[i].op : i \in 1..Len(Instructions(script))}

\* witness_script was called on wsh(older(n)) or wsh(after(n))
TimelockWitnessScript ==
    last.op = "witness_script" /\ desc.tag = "Wsh" /\ desc.ms.node \in {"older", "after"}

\* C20: the last instruction of the witness script of wsh(older(n)) is OP_CSV
\* and that of wsh(after(n)) is OP_CLTV, and neither script contains the
\* other fragment's opcode.
C20_TimelockOpcodes ==
    TimelockWitnessScript =>
        IF desc.ms.node = "older"
        THEN LastOp(last.res) = OP_CSV /\ OP_CLTV \notin OpsOf(last.res)
        ELSE LastOp(last.res) = OP_CLTV /\ OP_CSV \notin OpsOf(last.res)

\* the witness script of wsh(after(1000)) was computed and ends with OP_CLTV
C20_Witness ==
    /\ TimelockWitnessScript
    /\ desc.ms = after(1000)
    /\ LastOp(last.res) = OP_CLTV

\* the witness script of wsh(older(1000)) was computed and ends with OP_CSV
C20_WitnessOlder ==
    /\ TimelockWitnessScript
    /\ desc.ms = older(1000)
    /\ LastOp(last.res) = OP_CSV

(***************************************************************************)
(* C14: script round trip.                                                 *)
(***************************************************************************)
\* the serialized form of a tree (built by the caller, or returned by an
\* earlier parse) was parsed
ReparsedScript == descript # NoAst /\ last.op = "parse"

\* C14: parsing the serialized form of a tree succeeds and returns an equal
\* tree, for the trees of the tests, the composed trees, and every tree
\* parse returned.
C14_ScriptRoundTrip == ReparsedScript => last.res = ParseOk(descript)

\* V::SwitchOrT under T::And came back from its script
C14_Witness ==
    /\ ReparsedScript
    /\ descript = T_And(V_SwitchOrT(T_Time(9), T_Time(7)), T_Time(7))
    /\ last.res.tag = "Ok"
    /\ last.res.tree.sub[1].node = "SwitchOrT"

(***************************************************************************)
(* C15: parse needs one T fragment that takes every token.                 *)
(***************************************************************************)
\* the tokens of the script given to parse
TokensOf(script) == lex(script).toks

\* the fragment the decoder finds at the end of the script's tokens
TopOfScript(script) == into_t(parse_subexpression(TokensOf(script)))

\* parse was called on a script that lexes and ends in a T fragment with
\* tokens left in front of it
LeadingTokens ==
    /\ last.op = "parse"
    /\ lex(program).err = ""
    /\ TopOfScript(program).err = ""
    /\ TopOfScript(program).pos >= 1

\* C15: when parse succeeds the tree is a T fragment whose tokens are all
\* the tokens of the script; when tokens are left in front of the fragment
\* the result is Unexpected with the token next to the fragment; the empty
\* script and a lone fragment of another type (OP_0, OP_VERIFY, a V or a W
\* fragment) are errors.
C15_WholeStreamOneT ==
    last.op = "parse" =>
        /\ last.res.tag = "Ok" =>
               /\ last.res.tree.ty = "T"
               /\ lex(program).err = ""
               /\ lex(serialize(last.res.tree)).toks = TokensOf(program)
        /\ LeadingTokens =>
               last.res = ParseErr("Unexpected", TokensOf(program)[TopOfScript(program).pos])
        /\ program \in {<<>>, <<OP_PUSHBYTES_0>>, <<OP_VERIFY>>} \cup LoneFragments =>
               last.res.tag # "Ok"

\* OP_SWAP in front of a complete T fragment was reported as Unexpected
C15_Witness ==
    /\ LeadingTokens
    /\ program = <<OP_SWAP>> \o serialize(T_Time(921))
    /\ last.res = ParseErr("Unexpected", Tok("Swap"))

\* the empty script was rejected
C15_WitnessEmpty == last.op = "parse" /\ program = <<>> /\ last.res.tag # "Ok"

(***************************************************************************)
(* C16: non-minimal pushes, non-minimal numbers and truncated pushes.      *)
(***************************************************************************)
\* a push made with OP_PUSHDATA1/2/4 of data that a shorter push opcode holds
NonMinimalPushAt(ins) ==
    \/ ins.op = OP_PUSHDATA1 /\ Len(ins.data) <= 75
    \/ ins.op = OP_PUSHDATA2 /\ Len(ins.data) <= 255

\* a direct push of one to four bytes that are not the minimal encoding of a
\* number, or that encode a number OP_1..OP_16 pushes
NonMinimalNumberAt(ins) ==
    /\ ins.op \in 1..4
    /\ \/ ~read_scriptint(ins.data).ok
       \/ read_scriptint(ins.data).n \in 1..16

\* a push that runs past the end of the script
TruncatedAt(ins) == ins.op = -1

\* an instruction rejected for another reason: an opcode outside the token
\* set, a push that is no key, hash or number, or a negative number
OtherRejectAt(ins) ==
    \/ ins.op > OP_PUSHDATA4 /\ ins.op \notin OP_PUSHNUM_1..(OP_PUSHNUM_1 + 15)
          /\ OpToken(ins.op) = ""
    \/ ins.op \in 1..OP_PUSHDATA4 /\ ~NonMinimalPushAt(ins)
          /\ \/ Len(ins.data) > 4 /\ Len(ins.data) \notin {20, 32, 33}
             \/ Len(ins.data) = 33 /\ ins.data[1] \notin {2, 3}
             \/ Len(ins.data) \in 1..4 /\ read_scriptint(ins.data).ok
                   /\ read_scriptint(ins.data).n < 0

Offending(ins) == NonMinimalPushAt(ins) \/ NonMinimalNumberAt(ins) \/ TruncatedAt(ins)

\* the first instruction of a script that is rejected, 0 if there is none
FirstRejected(script) ==
    LET ins == Instructions(script)
        bad == {i \in 1..Len(ins) : Offending(ins[i]) \/ OtherRejectAt(ins[i])}
    IN  IF bad = {} THEN 0 ELSE CHOOSE i \in bad : \A j \in bad : i <= j

\* parse was called on a script with a non-minimal push, a non-minimal
\* number or a truncated push
ParsedOffending ==
    /\ last.op = "parse"
    /\ \E i \in 1..Len(Instructions(program)) : Offending(Instructions(program)[i])

C16_WitnessNumber ==
    /\ ParsedOffending
    /\ program \in {<<3, 153, 3, 0, 178>>, <<0, 0, 175, 1, 1, 178>>}
    /\ last.res.tag = "NonMinimalNumber"

\* a truncated push at the end of a script of the tests was rejected
C16_WitnessTruncated ==
    /\ ParsedOffending
    /\ TruncatedAt(Instructions(program)[FirstRejected(program)])
    /\ Len(program) > 2
    /\ last.res.tag # "Ok"

(***************************************************************************)
(* C19: the Script template of each variant.                               *)
(***************************************************************************)
\* the shortest push of a number from 0 to 2^31 - 1: OP_0, OP_1..OP_16, or
\* the length and the little-endian bytes, with a zero byte on top when the
\* highest bit is set
MinimalNumber(n) ==
    LET b1 == <<n % 256>>
        b2 == <<n % 256, (n \div 256) % 256>>
        b3 == b2 \o <<(n \div 65536) % 256>>
        b4 == b3 \o <<n \div 16777216>>
    IN  IF n = 0 THEN <<0>>
        ELSE IF n <= 16 THEN <<80 + n>>
        ELSE IF n < 128 THEN <<1>> \o b1
        ELSE IF n < 32768 THEN <<2>> \o b2
        ELSE IF n < 8388608 THEN <<3>> \o b3
        ELSE <<4>> \o b4

RECURSIVE TemplateOf(_)
\* the bytes the templates give for a fragment; a key is pushed as 33 and
\* its bytes, a hash as 32 and its bytes
TemplateOf(a) ==
    LET t(i) == TemplateOf(a.sub[i])
        f == <<a.ty, a.node>>
        cms == MinimalNumber(a.k) \o Concat([i \in 1..Len(a.pks) |-> <<33>> \o a.pks[i]])
               \o MinimalNumber(Len(a.pks))
    IN  CASE f = <<"E", "CheckSig">> -> <<33>> \o a.pk \o <<172>>
          [] f = <<"W", "CheckSig">> -> <<124, 33>> \o a.pk \o <<172>>
          [] f = <<"V", "CheckSig">> -> <<33>> \o a.pk \o <<173>>
          [] f = <<"E", "CheckMultiSig">> -> cms \o <<174>>
          [] f = <<"V", "CheckMultiSig">> -> cms \o <<175>>
          [] f = <<"E", "Threshold">> ->
                t(1)
                \o Concat([i \in 1..(Len(a.sub) - 1) |-> t(i + 1) \o <<147>>])
                \o MinimalNumber(a.k) \o <<135>>
          [] f = <<"T", "Time">> -> MinimalNumber(a.n) \o <<178>>
          [] f = <<"T", "HashEqual">> -> <<130, 1, 32, 136, 170, 32>> \o a.h \o <<135>>
          [] f \in {<<"V", "And">>, <<"T", "And">>} -> t(1) \o t(2)
          [] f = <<"T", "ParallelOr">> -> t(1) \o t(2) \o <<155>>
          [] f = <<"T", "CascadeOr">> -> t(1) \o <<115, 100>> \o t(2) \o <<104>>
          [] f = <<"T", "SwitchOr">> -> <<99>> \o t(1) \o <<103>> \o t(2) \o <<104>>
          [] f = <<"V", "SwitchOrT">> -> <<99>> \o t(1) \o <<103>> \o t(2) \o <<104, 105>>
          [] f = <<"T", "SwitchOrV">> -> <<99>> \o t(1) \o <<103>> \o t(2) \o <<104, 81>>
          [] f = <<"T", "CastE">> -> t(1)

\* C19: the script serialize returns is the template of the tree's variant
\* with the encodings of its sub-fragments in their places: OP_BOOLOR after
\* the two sides of ParallelOr, OP_SWAP in front of W::CheckSig, <k> <keys>
\* <n> OP_CHECKMULTISIG, OP_IFDUP OP_NOTIF .. OP_ENDIF for CascadeOr,
\* OP_IF .. OP_ELSE .. OP_ENDIF for SwitchOr with OP_VERIFY after it for
\* V::SwitchOrT and OP_1 for T::SwitchOrV, V then T for And, and the minimal
\* number and OP_CSV for Time.
C19_EncodingTemplates == last.op = "serialize" => last.res = TemplateOf(descript)

\* ParallelOr(CheckMultiSig(0, []), W::CheckSig(pk1)) was serialized to
\* OP_0 OP_0 OP_CHECKMULTISIG OP_SWAP <pk1> OP_CHECKSIG OP_BOOLOR
C19_Witness ==
    /\ last.op = "serialize"
    /\ descript = T_ParallelOr(E_CheckMultiSig(0, <<>>), W_CheckSig(pubkeys(1)))
    /\ last.res = <<0, 0, 174, 124, 33>> \o pubkeys(1) \o <<172, 155>>

\* Time(921) was serialized to 02 99 03 b2 and V::SwitchOrT under And with
\* its OP_VERIFY
C19_WitnessTime ==
    last.op = "serialize" /\ descript = T_Time(921) /\ last.res = <<2, 153, 3, 178>>

C19_WitnessSwitchOrT ==
    /\ last.op = "serialize"
    /\ descript = T_And(V_SwitchOrT(T_Time(9), T_Time(7)), T_Time(7))
    /\ last.res = <<99, 89, 178, 103, 87, 178, 104, 105, 87, 178>>

(***************************************************************************)
(* C17: the choice between the branches of a disjunction.                  *)
(***************************************************************************)
Disjunctions == {"ParallelOr", "CascadeOr", "SwitchOr", "SwitchOrV", "SwitchOrT"}

\* the satisfaction of sub-fragment i of fragment a under the caller's lookups
SubSat(a, i) == ast_satisfy(a.sub[i], satisfier)

\* the stack of disjunction a when its left branch is the one satisfied: the
\* left satisfaction, under the empty dissatisfaction of a wrapped right side
\* or the selector 1 of an if-else
LeftBranch(a) ==
    IF ~SubSat(a, 1).ok THEN Unsat
    ELSE CASE a.node = "ParallelOr" -> Sat(ast_dissatisfy(a.sub[2]) \o SubSat(a, 1).stack)
           [] a.node = "CascadeOr" -> Sat(SubSat(a, 1).stack)
           [] OTHER -> Sat(SubSat(a, 1).stack \o <<<<1>>>>)

\* the stack of disjunction a when its right branch is the one satisfied
RightBranch(a) ==
    IF ~SubSat(a, 2).ok THEN Unsat
    ELSE CASE a.node \in {"ParallelOr", "CascadeOr"} ->
                Sat(SubSat(a, 2).stack \o ast_dissatisfy(a.sub[1]))
           [] OTHER -> Sat(SubSat(a, 2).stack \o <<<<>>>>)

\* stack r is what the claim lets the satisfier return for disjunction a
Selected(a, r) ==
    LET L == LeftBranch(a)
        R == RightBranch(a)
    IN  /\ L.ok /\ R.ok =>
              r = Sat(IF ElementsSize(L.stack, 1) <= ElementsSize(R.stack, 1)
                      THEN L.stack ELSE R.stack)
        /\ L.ok /\ ~R.ok => r = L
        /\ ~L.ok /\ R.ok => r = R
        /\ ~r.ok <=> (~L.ok /\ ~R.ok)

\* the result of the call as a satisfaction
Returned == IF last.res.tag = "Ok" THEN Sat(last.res.stack) ELSE Unsat

\* C17: for a tree that is a disjunction, Descript::satisfy returns the stack
\* of the branch with the smaller serialized size when both branches can be
\* satisfied, the left one when the sizes are equal, the stack of the only
\* satisfiable branch when there is one, and CouldNotSatisfy exactly when
\* neither branch can be satisfied; a V::SwitchOrT under And is chosen the
\* same way, below the stack of the T that follows it.
C17_DisjunctionChoice ==
    last.op = "satisfy" =>
        /\ descript.node \in Disjunctions => Selected(descript, Returned)
        /\ (descript.node = "And" /\ descript.sub[1].node = "SwitchOrT"
            /\ SubSat(descript, 2).ok) =>
              \E r \in {LeftBranch(descript.sub[1]), RightBranch(descript.sub[1]), Unsat} :
                  /\ Selected(descript.sub[1], r)
                  /\ Returned = IF r.ok THEN Sat(SubSat(descript, 2).stack \o r.stack) ELSE Unsat

\* both branches could be satisfied and the right one, strictly smaller, was
\* returned although it has more elements
C17_Witness ==
    /\ last.op = "satisfy"
    /\ descript.node \in Disjunctions
    /\ LeftBranch(descript).ok /\ RightBranch(descript).ok
    /\ ElementsSize(RightBranch(descript).stack, 1) < ElementsSize(LeftBranch(descript).stack, 1)
    /\ Len(RightBranch(descript).stack) > Len(LeftBranch(descript).stack)
    /\ last.res = SatisfyOk(RightBranch(descript).stack)

\* a tie between two different stacks went to the left branch
C17_WitnessTie ==
    /\ last.op = "satisfy"
    /\ descript.node \in Disjunctions
    /\ LeftBranch(descript).ok /\ RightBranch(descript).ok
    /\ ElementsSize(RightBranch(descript).stack, 1) = ElementsSize(LeftBranch(descript).stack, 1)
    /\ RightBranch(descript).stack # LeftBranch(descript).stack
    /\ last.res = SatisfyOk(LeftBranch(descript).stack)

\* only the right branch could be satisfied and was returned
C17_WitnessOnlyRight ==
    /\ last.op = "satisfy"
    /\ descript.node \in Disjunctions
    /\ ~LeftBranch(descript).ok /\ RightBranch(descript).ok
    /\ last.res = SatisfyOk(RightBranch(descript).stack)

\* neither branch could be satisfied and the call failed
C17_WitnessNone ==
    /\ last.op = "satisfy"
    /\ descript.node \in Disjunctions
    /\ ~LeftBranch(descript).ok /\ ~RightBranch(descript).ok
    /\ last.res = SatisfyErr

(***************************************************************************)
(* C18: Threshold satisfies exactly k sub-fragments.                       *)
(***************************************************************************)
\* the tree is a threshold cast to T and satisfy was called on it
ThresholdSatisfied ==
    last.op = "satisfy" /\ descript.node = "CastE" /\ descript.sub[1].node = "Threshold"

\* the sub-fragments of threshold th that can be satisfied under the lookups
Satisfiable(th) == {i \in 1..Len(th.sub) : SubSat(th, i).ok}

\* the stack that satisfies the sub-fragments in S and dissatisfies the
\* others: the part of the head on top, the part of the last W at the bottom
ThresholdStack(th, S) ==
    Concat([j \in 1..Len(th.sub) |->
               LET i == Len(th.sub) + 1 - j
               IN  IF i \in S THEN SubSat(th, i).stack ELSE ast_dissatisfy(th.sub[i])])

\* C18: the stack Descript::satisfy returns for Threshold(k, head, tail) is
\* made of the satisfactions of exactly k of the sub-fragments and the
\* dissatisfactions of all the others, and with fewer than k satisfiable
\* sub-fragments the call fails with CouldNotSatisfy.
C18_ThresholdExactlyK ==
    ThresholdSatisfied =>
        LET th == descript.sub[1]
        IN  /\ Cardinality(Satisfiable(th)) < th.k => last.res = SatisfyErr
            /\ last.res.tag = "Ok" =>
                  \E S \in SUBSET Satisfiable(th) :
                      /\ Cardinality(S) = th.k
                      /\ last.res.stack = ThresholdStack(th, S)
                      /\ \A i \in 1..Len(th.sub) :
                            SubSat(th, i).stack # ast_dissatisfy(th.sub[i])

\* more than k sub-fragments could be satisfied and a stack was returned
C18_Witness ==
    /\ ThresholdSatisfied
    /\ Cardinality(Satisfiable(descript.sub[1])) > descript.sub[1].k
    /\ last.res.tag = "Ok"
    /\ Len(last.res.stack) = Len(descript.sub[1].sub)

\* fewer than k sub-fragments could be satisfied, one of them could, and
\* the call failed
C18_WitnessTooFew ==
    /\ ThresholdSatisfied
    /\ Satisfiable(descript.sub[1]) # {}
    /\ Cardinality(Satisfiable(descript.sub[1])) < descript.sub[1].k
    /\ last.res = SatisfyErr

(***************************************************************************)
(* C22: a failed satisfy and the TxIn.                                     *)
(***************************************************************************)
\* the last call was satisfy and it returned MissingSig or CouldNotSatisfy
SatisfyFailed == last.op = "satisfy" /\ last.res.tag \in {"MissingSig", "CouldNotSatisfy"}

\* C22 as stated: when satisfy returns an error, script_sig and witness of
\* the TxIn are what they were before the call, for every envelope.
C22_ErrorLeavesTxInUnchanged ==
    SatisfyFailed =>
        /\ txin.script_sig = last.before.script_sig
        /\ txin.witness = last.before.witness

\* C22 for the envelopes other than ShWsh: there a failed call leaves
\* script_sig and witness as they were
C22_ErrorLeavesTxInUnchangedButShWsh ==
    (SatisfyFailed /\ desc.tag # "ShWsh") =>
        /\ txin.script_sig = last.before.script_sig
        /\ txin.witness = last.before.witness

\* a failed call of a ShWsh descriptor left another script_sig than it was given
C22_ShWshWritten ==
    /\ SatisfyFailed
    /\ desc.tag = "ShWsh"
    /\ txin.script_sig # last.before.script_sig
    /\ txin.script_sig = push_slice(to_v0_p2wsh(encode(desc.ms)))

(***************************************************************************)
(* C23: satisfy writes script_sig and witness and nothing else.            *)
(***************************************************************************)
\* what the last call's descriptor and satisfier give on a fresh TxIn
OnFreshTxIn == satisfy(desc, FreshTxIn, satisfier).txin

\* C23: a satisfy call leaves previous_output and sequence as they were, and
\* after any calls before it a successful call leaves the script_sig and the
\* witness that the same call gives on a fresh, empty TxIn.
C23_OnlyScriptSigAndWitness ==
    last.op = "satisfy" =>
        /\ txin.previous_output = last.before.previous_output
        /\ txin.sequence = last.before.sequence
        /\ last.res = Ok =>
              /\ txin.script_sig = OnFreshTxIn.script_sig
              /\ txin.witness = OnFreshTxIn.witness

\* a successful call on a TxIn that held a script_sig and a witness of an
\* earlier call emptied both fields it does not use: Wpkh after ShWpkh or
\* ShWsh leaves no script_sig
C23_Witness ==
    /\ last.op = "satisfy"
    /\ last.res = Ok
    /\ last.before.script_sig # <<>>
    /\ last.before.witness # <<>>
    /\ desc.tag = "Wpkh"
    /\ txin.script_sig = <<>>
    /\ txin.witness # last.before.witness

\* a successful Pk call after a failed ShWsh call, which had written script_sig
C23_WitnessAfterFailure ==
    /\ last.op = "satisfy"
    /\ last.res = Ok
    /\ desc.tag = "Pk"
    /\ last.before.script_sig # <<>>
    /\ last.before.witness = <<>>
    /\ txin.script_sig # last.before.script_sig
    /\ txin.witness = <<>>

(***************************************************************************)
(* C24: the scriptSig of a witness stack.                                  *)
(***************************************************************************)
\* e is the minimal encoding of a Script integer: at most 4 bytes, and the
\* top byte is not a bare sign unless the byte below needs it
IsMinimalInteger(e) ==
    /\ Len(e) <= 4
    /\ e # <<>> => (e[Len(e)] \notin {0, 128} \/ (Len(e) > 1 /\ e[Len(e) - 1] >= 128))

\* the push of the bytes e: the length, behind OP_PUSHDATA1 from 76 bytes on
DataPush(e) == IF Len(e) <= 75 THEN <<Len(e)>> \o e ELSE <<76, Len(e)>> \o e

\* the push the claim gives element e: OP_0, OP_1..OP_16 and OP_1NEGATE for
\* the minimal encodings of 0, 1..16 and -1, the push of the bytes otherwise
ElementPush(e) ==
    IF ~IsMinimalInteger(e) THEN DataPush(e)
    ELSE IF e = <<>> THEN <<0>>
    ELSE IF Len(e) = 1 /\ e[1] \in 1..16 THEN <<80 + e[1]>>
    ELSE IF e = <<129>> THEN <<79>>
    ELSE DataPush(e)

C24_WitnessSmall ==
    /\ last.op = "witness_to_scriptsig"
    /\ last.res = <<(<<>>), (<<129>>)>>
    /\ program = <<0, 79>>

(***************************************************************************)
(* C21: translate_pk keeps the shape of the descriptor.                    *)
(***************************************************************************)
\* the keys of descriptor d in the order translate_pk meets them
KeysIn(d) ==
    IF d.tag \in KeyTags THEN <<d.pk>>
    ELSE IF d.ms.node = "c:pk_k" THEN <<d.ms.key>>
    ELSE d.ms.keys

\* translation f returns an error for key i of d, and for none before it
FirstError(d, f, i) ==
    /\ i \in 1..Len(KeysIn(d))
    /\ f[KeysIn(d)[i]] \in TranslateErrors
    /\ \A j \in 1..(i - 1) : f[KeysIn(d)[j]] \notin TranslateErrors

\* translation f gives every key of d a key with the same bytes
IdentityOnBytes(d, f) ==
    \A i \in 1..Len(KeysIn(d)) :
        /\ f[KeysIn(d)[i]] \in Keys
        /\ to_bytes(f[KeysIn(d)[i]]) = to_bytes(KeysIn(d)[i])

\* C21: translate_pk returns a descriptor of the same envelope whose key, or
\* whose miniscript fragment by fragment, is the translation of the input's;
\* an error of the translation function is returned as it is, the one of the
\* first key that has one; and with a translation that keeps the bytes of
\* the keys, script_pubkey, witness_script and unsigned_script_sig of the
\* result are those of the input.
C21_TranslatePkShape ==
    last.op = "translate_pk" =>
        LET f == last.f
            r == last.res
        IN  /\ r.tag = "Ok" =>
                  /\ r.d.tag = desc.tag
                  /\ Len(KeysIn(r.d)) = Len(KeysIn(desc))
                  /\ \A i \in 1..Len(KeysIn(desc)) : KeysIn(r.d)[i] = f[KeysIn(desc)[i]]
                  /\ r.d.ms.node = desc.ms.node
                  /\ r.d.ms.n = desc.ms.n
                  /\ r.d.ms.k = desc.ms.k
            /\ r.tag = "Err" <=> \E i \in 1..Len(KeysIn(desc)) : FirstError(desc, f, i)
            /\ \A i \in 1..Len(KeysIn(desc)) :
                  FirstError(desc, f, i) => r = TranslateErr(f[KeysIn(desc)[i]])
            /\ IdentityOnBytes(desc, f) =>
                  /\ r.tag = "Ok"
                  /\ script_pubkey(r.d) = script_pubkey(desc)
                  /\ witness_script(r.d) = witness_script(desc)
                  /\ unsigned_script_sig(r.d) = unsigned_script_sig(desc)

\* a ShWpkh descriptor was translated to another key
C21_Witness ==
    /\ last.op = "translate_pk"
    /\ desc.tag = "ShWpkh"
    /\ last.res.tag = "Ok"
    /\ last.res.d.tag = "ShWpkh"
    /\ last.res.d.pk # desc.pk

\* the second key of a multi under Wsh had an error, the first had none
C21_WitnessError ==
    /\ last.op = "translate_pk"
    /\ desc.tag = "Wsh"
    /\ desc.ms.node = "multi"
    /\ FirstError(desc, last.f, 2)
    /\ last.res = TranslateErr(last.f[desc.ms.keys[2]])

\* a translation that keeps the bytes of the keys of a Sh descriptor, and is
\* not the identity on the other keys
C21_WitnessIdentity ==
    /\ last.op = "translate_pk"
    /\ desc.tag = "Sh"
    /\ desc.ms.node = "c:pk_k"
    /\ IdentityOnBytes(desc, last.f)
    /\ \E k \in Keys : last.f[k] # k
    /\ script_pubkey(last.res.d) = script_pubkey(desc)

====
